---- MODULE Spec2Model ----
(***************************************************************************)
(* QuaranTab: the background controller (Daemon + QuaranTab instance with  *)
(* Runner.BACKGROUND), the popup (QuaranTab instance with Runner.POPUP),   *)
(* and the part of the host browser they talk to (containers, tabs, web    *)
(* requests, runtime messages).                                            *)
(*                                                                         *)
(* Suspension points.  An `await` on a promise that is already settled     *)
(* (_cookieStoreIdToIsLocked, _browserInfo after construction) resumes in  *)
(* the microtask checkpoint of the same task, before any other host event  *)
(* is dispatched, so it is not an interleaving point.  An `await` on a     *)
(* host call (runtime.sendMessage, scripting.executeScript, ...) is one:   *)
(* the handler is split there into separate actions.                       *)
(***************************************************************************)
EXTENDS Integers, FiniteSets, Sequences, Bags, TLC

\* Bounds of the model.
MaxRequests == 2
MaxSends == 2
MaxTabs == 1
MaxEvents == 4
MaxSweepTabs == 3

\* src/src/lib/quarantab.ts:31-36  enum QuarantineStatus
NONE == "NONE"
OPEN == "OPEN"
CLOSING == "CLOSING"
CLOSED == "CLOSED"
QuarantineStatus == {NONE, OPEN, CLOSING, CLOSED}

\* src/src/lib/quarantab.ts:47-48
OpenText == ""
ClosedText == " - Locked"

\* The three shapes of response the two hooks can give the host.
\* ALLOW: WebRequestAllow {} / ProxyRequestAllow {type: 'direct'}
\* BLOCK: WebRequestBlock {cancel: true} / ProxyRequestBlock (dead socks4 proxy)
\* REDIRECT: {redirectUrl} to /public/network-access-blocked.html
ALLOW == "ALLOW"
BLOCK == "BLOCK"
REDIRECT == "REDIRECT"

Undefined == "undefined"
Absent == "absent"

\* Containers this extension may create, and a container that is not ours.
CookieStoreIds == {"c1"}
ForeignCookieStoreIds == {"firefox-default"}
RequestIds == 1..MaxRequests
TabIds == 1..MaxTabs

\* browser.webRequest.ResourceType: the three the code distinguishes
\* (websocket, main_frame, anything else).
ResourceTypes == {"websocket", "main_frame", "xmlhttprequest"}

\* requestState of trackRequestStateChanged
RequestStates == {"open", "completed", "error", "redirect", "block"}

\* What the promise browser.runtime.getBrowserInfo() can settle to
\* (quarantab.ts:53): fulfilled with a name and a vendor, or rejected.
BrowserInfos ==
    { [ok |-> TRUE, name |-> "Firefox", vendor |-> "Mozilla"],
      [ok |-> TRUE, name |-> "Firefox", vendor |-> "Other"],
      [ok |-> TRUE, name |-> "Chrome", vendor |-> "Google"],
      [ok |-> FALSE, name |-> "", vendor |-> ""] }
Rejected == "rejected"

\* The request details the hooks read: the resource type and whether the
\* url starts with 'http'.
RequestDetails ==
    { [type |-> "websocket", http |-> FALSE],
      [type |-> "main_frame", http |-> TRUE],
      [type |-> "main_frame", http |-> FALSE],
      [type |-> "xmlhttprequest", http |-> TRUE] }

-----------------------------------------------------------------------------
(* Pure functions of the code *)

\* QuaranTab._getQuaranTabContainerName
_getQuaranTabContainerName(isLocked) ==
    IF isLocked THEN "QuaranTab" \o ClosedText ELSE "QuaranTab" \o OpenText

\* The text after 'QuaranTab' in the names of the model.
NameSuffixes == {OpenText, ClosedText, " ", ClosedText \o " "}

\* name.startsWith('QuaranTab')
StartsWithQuaranTab(name) == \E suffix \in NameSuffixes : name = "QuaranTab" \o suffix

\* A recogniser that goes by the prefix of the name.
_getStatusFromContainerPrefix(name) ==
    IF name = _getQuaranTabContainerName(TRUE) THEN CLOSED
    ELSE IF StartsWithQuaranTab(name) THEN OPEN
    ELSE NONE

\* QuaranTab._getStatusFromContainerName
_getStatusFromContainerName(name) ==
    IF name = _getQuaranTabContainerName(FALSE) THEN OPEN
    ELSE IF name = _getQuaranTabContainerName(TRUE) THEN CLOSED
    ELSE NONE

\* A checkStatus that reports every locked container as CLOSED.
checkStatusIgnoringCount(locked, count, cookieStoreId) ==
    IF cookieStoreId = Undefined THEN NONE
    ELSE IF cookieStoreId \notin DOMAIN locked THEN NONE
    ELSE IF locked[cookieStoreId] = TRUE THEN CLOSED
    ELSE OPEN

\* QuaranTab.checkStatus, as a function of the instance's two maps.
\* locked is the Map _cookieStoreIdToIsLocked (a function whose domain is
\* the set of keys); count[c] = 0 stands for no entry in
\* _cookieStoreIdOpenRequestCount (onRequestCountChanged never stores a
\* count <= 0, and checkStatus tests the entry with `!`).
checkStatus(locked, count, cookieStoreId) ==
    IF cookieStoreId = Undefined THEN NONE
    ELSE IF cookieStoreId \notin DOMAIN locked THEN NONE
    ELSE IF locked[cookieStoreId] = TRUE
         THEN IF count[cookieStoreId] = 0 THEN CLOSED ELSE CLOSING
    ELSE IF locked[cookieStoreId] = FALSE THEN OPEN
    ELSE NONE

\* A capability check that blocks websockets on every host.
shouldBlockWebsocketAlways(info) == TRUE

\* QuaranTab.shouldBlockWebsocketOnOpen, on a settled _browserInfo
shouldBlockWebsocketOnOpen(info) ==
    IF info.name = "Firefox" /\ info.vendor = "Mozilla" THEN FALSE ELSE TRUE


\* A hook body either returns a response (having made, or not, one call
\* of trackRequestStateChanged with the request state `track`), or throws.
Returns(response, track) == [threw |-> FALSE, response |-> response, track |-> track]
Throws == [threw |-> TRUE, response |-> "none", track |-> "none"]

\* Daemon.webRequestOnBeforeRequestBlocking, the body of its try block.
\* lockedOk: the promise _cookieStoreIdToIsLocked is fulfilled (checkStatus
\* rejects otherwise, for a defined cookieStoreId); info: _browserInfo;
\* secErr: runtime.getURL or getBrowserType() throws in the CLOSED/CLOSING
\* branch.
webRequestTry(lockedOk, status, details, info, secErr) ==
    IF ~lockedOk THEN Throws
    ELSE CASE status = OPEN ->
                IF details.type = "websocket"
                THEN IF ~info.ok THEN Throws
                     ELSE Returns(IF shouldBlockWebsocketOnOpen(info)
                                  THEN BLOCK ELSE ALLOW, "none")
                ELSE Returns(ALLOW, "open")
           [] status \in {CLOSED, CLOSING} ->
                IF details.type = "main_frame" /\ details.http
                THEN IF secErr THEN Throws ELSE Returns(REDIRECT, "none")
                ELSE Returns(BLOCK, "none")
           [] OTHER -> Returns(ALLOW, "open")

\* Daemon.onProxyRequest, the body of its try block.
proxyRequestTry(lockedOk, status, details, info) ==
    IF ~lockedOk THEN Throws
    ELSE CASE status = OPEN ->
                IF details.type = "websocket"
                THEN IF ~info.ok THEN Throws
                     ELSE IF shouldBlockWebsocketOnOpen(info)
                          THEN Returns(BLOCK, "block")
                          ELSE Returns(ALLOW, "none")
                ELSE Returns(ALLOW, "none")
           [] status \in {CLOSED, CLOSING} -> Returns(BLOCK, "block")
           [] OTHER -> Returns(ALLOW, "none")

\* A hook without its catch clause: the error leaves the hook.
hookRethrow(res) ==
    IF res.threw
    THEN [response |-> "none", track |-> "none", err |-> TRUE, escaped |-> TRUE]
    ELSE [response |-> res.response, track |-> res.track, err |-> FALSE,
          escaped |-> FALSE]

\* The catch clause of both hooks: log and allow.  escaped: the error
\* leaves the hook (the promise returned to the host rejects).
hookCatch(res) ==
    IF res.threw
    THEN [response |-> ALLOW, track |-> "none", err |-> TRUE, escaped |-> FALSE]
    ELSE [response |-> res.response, track |-> res.track, err |-> FALSE,
          escaped |-> FALSE]

\* Daemon.webRequestOnBeforeRequestBlocking
webRequestOnBeforeRequestBlocking(lockedOk, status, details, info, secErr) ==
    hookCatch(webRequestTry(lockedOk, status, details, info, secErr))

\* Daemon.onProxyRequest
onProxyRequest(lockedOk, status, details, info) ==
    hookCatch(proxyRequestTry(lockedOk, status, details, info))

\* A tracker that never consults the closed set when an event arrives: an
\* open event always inserts the id into the open set.
trackSetsUnreconciled(open, closed, requestId, requestState) ==
    IF requestState # "open" /\ requestId \notin open
    THEN [open |-> open, closed |-> closed \cup {requestId},
          notify |-> FALSE, count |-> 0]
    ELSE IF requestState = "open"
    THEN [open |-> open \cup {requestId}, closed |-> closed,
          notify |-> TRUE, count |-> Cardinality(open \cup {requestId})]
    ELSE [open |-> open \ {requestId}, closed |-> closed,
          notify |-> TRUE, count |-> Cardinality(open \ {requestId})]

\* A tracker that returns on an id of the closed set without deleting it.
trackSetsKeepsClosed(open, closed, requestId, requestState) ==
    IF requestId \in closed
    THEN [open |-> open, closed |-> closed, notify |-> FALSE, count |-> 0]
    ELSE IF requestState # "open" /\ requestId \notin open
    THEN [open |-> open, closed |-> closed \cup {requestId},
          notify |-> FALSE, count |-> 0]
    ELSE IF requestState = "open"
    THEN [open |-> open \cup {requestId}, closed |-> closed,
          notify |-> TRUE, count |-> Cardinality(open \cup {requestId})]
    ELSE [open |-> open \ {requestId}, closed |-> closed,
          notify |-> TRUE, count |-> Cardinality(open \ {requestId})]

\* A tracker that notifies the size the open set had before the change.
trackSetsStaleCount(open, closed, requestId, requestState) ==
    IF requestId \in closed
    THEN [open |-> open, closed |-> closed \ {requestId},
          notify |-> FALSE, count |-> 0]
    ELSE IF requestState # "open" /\ requestId \notin open
    THEN [open |-> open, closed |-> closed \cup {requestId},
          notify |-> FALSE, count |-> 0]
    ELSE IF requestState = "open"
    THEN [open |-> open \cup {requestId}, closed |-> closed,
          notify |-> TRUE, count |-> Cardinality(open)]
    ELSE [open |-> open \ {requestId}, closed |-> closed,
          notify |-> TRUE, count |-> Cardinality(open)]

\* Daemon.trackRequestStateChanged, lines 117-153: the two sets of one
\* managed container.  notify: line 156 is reached, with count =
\* openRequestIds.size.
trackSets(open, closed, requestId, requestState) ==
    IF requestId \in closed
    THEN [open |-> open, closed |-> closed \ {requestId},
          notify |-> FALSE, count |-> 0]
    ELSE IF requestState # "open" /\ requestId \notin open
    THEN [open |-> open, closed |-> closed \cup {requestId},
          notify |-> FALSE, count |-> 0]
    ELSE IF requestState = "open"
    THEN [open |-> open \cup {requestId}, closed |-> closed,
          notify |-> TRUE, count |-> Cardinality(open \cup {requestId})]
    ELSE [open |-> open \ {requestId}, closed |-> closed,
          notify |-> TRUE, count |-> Cardinality(open \ {requestId})]

\* browser.privacy.network.peerConnectionEnabled: the value of the setting
\* and the levelOfControl the host reports for it.
LevelsOfControl ==
    {"not_controllable", "controlled_by_other_extensions",
     "controllable_by_this_extension", "controlled_by_this_extension"}
WebRtcSettings == [value : BOOLEAN, levelOfControl : LevelsOfControl]

\* What a call of disableWebRtc / resetWebRtc did: the value it passed to
\* peerConnectionEnabled.set, what it did to the flag 'webrtc-disabled' of
\* storage.local, the value it passed to onWebRtcEnabledChanged ("none":
\* no such call), and whether it threw.
GuardCall(op, runner, threw, set, store, notice) ==
    [op |-> op, runner |-> runner, threw |-> threw, set |-> set,
     store |-> store, notice |-> notice]
NoGuardCall == GuardCall("none", "none", FALSE, "none", "none", "none")

\* A disableWebRtc that does not look at the levelOfControl.
disableWebRtcUnchecked(runner, setting) ==
    IF ~setting.value
    THEN GuardCall("disableWebRtc", runner, FALSE, "none", "none", "none")
    ELSE GuardCall("disableWebRtc", runner, FALSE, "false", "set", "false")

\* A disableWebRtc that does not look at the current value.
disableWebRtcAlways(runner, setting) ==
    IF setting.levelOfControl \in {"not_controllable", "controlled_by_other_extensions"}
    THEN GuardCall("disableWebRtc", runner, TRUE, "none", "none", "none")
    ELSE GuardCall("disableWebRtc", runner, FALSE, "false", "set", "false")

\* QuaranTab.disableWebRtc
disableWebRtc(runner, setting) ==
    IF ~setting.value
    THEN GuardCall("disableWebRtc", runner, FALSE, "none", "none", "none")
    ELSE IF setting.levelOfControl = "not_controllable"
    THEN GuardCall("disableWebRtc", runner, TRUE, "none", "none", "none")
    ELSE IF setting.levelOfControl = "controlled_by_other_extensions"
    THEN GuardCall("disableWebRtc", runner, TRUE, "none", "none", "none")
    ELSE GuardCall("disableWebRtc", runner, FALSE, "false", "set", "false")

\* A resetWebRtc that goes by the flag alone.
resetWebRtcByFlag(runner, setting, isWebrtcDisabledByUs) ==
    IF ~isWebrtcDisabledByUs
    THEN GuardCall("resetWebRtc", runner, FALSE, "none", "none", "none")
    ELSE GuardCall("resetWebRtc", runner, FALSE, "true", "remove", "true")

\* QuaranTab.resetWebRtc
resetWebRtc(runner, setting, isWebrtcDisabledByUs) ==
    IF setting.levelOfControl # "controlled_by_this_extension" /\ ~isWebrtcDisabledByUs
    THEN GuardCall("resetWebRtc", runner, FALSE, "none", "none", "none")
    ELSE GuardCall("resetWebRtc", runner, FALSE, "true", "remove", "true")

\* The host's peerConnectionEnabled.set({value}): the value is taken when
\* the extension can control the setting, and the extension then controls
\* it; otherwise the call leaves the setting as it is.
SettingAfter(setting, set) ==
    IF set = "none" THEN setting
    ELSE IF setting.levelOfControl \in {"controllable_by_this_extension",
                                        "controlled_by_this_extension"}
    THEN [value |-> set = "true", levelOfControl |-> "controlled_by_this_extension"]
    ELSE setting

\* storage.local.set / remove of the flag
FlagAfter(flag, store) ==
    IF store = "set" THEN TRUE ELSE IF store = "remove" THEN FALSE ELSE flag


-----------------------------------------------------------------------------
(* State *)

VARIABLES
    \* background: QuaranTab instance (Runner.BACKGROUND) and Daemon
    lockedOk,               \* the promise _cookieStoreIdToIsLocked is fulfilled
    browserInfo,            \* what _browserInfo settled to
    listening,              \* the blocking listeners are registered
    isLocked,               \* _cookieStoreIdToIsLocked
    openRequestCount,       \* _cookieStoreIdOpenRequestCount (0: no entry)
    openRequestIds,         \* Daemon._cookieStoreIdToOpenRequestIds
    closedRequestIds,       \* Daemon._cookieStoreIdToClosedRequestIds
    tabIdToCookieStoreId,   \* _tabIdToCookieStoreId
    cookieStoreIdToTabIds,  \* _cookieStoreIdToTabIds
    sends,                  \* onRequestCountChanged calls suspended at sendMessage
    \* popup: QuaranTab instance (Runner.POPUP); it lives while the popup is open
    popupOpen,
    popIsLocked,            \* its _cookieStoreIdToIsLocked
    popOpenRequestCount,    \* its _cookieStoreIdOpenRequestCount
    calls,                  \* its _setIsLocked calls suspended at sendMessage
    \* host browser
    containerName,          \* contextualIdentities: name of each container
    liveTabs,               \* tabs: the container of each open tab
    tabEvents,              \* tabs.onCreated / onRemoved events not yet dispatched, oldest first
    requests,               \* web requests of the managed containers
    \* what the entry point run by the last step gave back to the host: a
    \* hook's response, or the error a handler caught
    ret,
    \* the request events of a container as the host produced them: the two
    \* sets of a tracker that saw each event when it happened, and the
    \* events the Daemon has yet to see
    causal,
    \* the global guard
    webRtc,                 \* privacy.network.peerConnectionEnabled
    webRtcDisabledFlag,     \* storage.local['webrtc-disabled']
    guardCall               \* the disableWebRtc / resetWebRtc call of the last step

bgVars == <<lockedOk, browserInfo, listening, isLocked, openRequestCount,
            openRequestIds, closedRequestIds, tabIdToCookieStoreId,
            cookieStoreIdToTabIds, sends>>
popVars == <<popupOpen, popIsLocked, popOpenRequestCount, calls>>
hostVars == <<containerName, liveTabs, tabEvents, requests>>
guardVars == <<webRtc, webRtcDisabledFlag, guardCall>>
vars == <<bgVars, popVars, hostVars, ret, causal, guardVars>>

NoRet == [entry |-> "none"]
NoDetails == [type |-> "none", http |-> FALSE]
IdleRequest == [phase |-> "idle", cookieStoreId |-> Absent, details |-> NoDetails]
NoEvents == [open |-> {}, closed |-> {}, life |-> [r \in RequestIds |-> "new"],
             produced |-> 0, pending |-> EmptyBag]

\* A JS Map as a function whose domain is the set of keys.
EmptyMap == [k \in {} |-> FALSE]
MapSet(m, k, v) == [x \in (DOMAIN m) \cup {k} |-> IF x = k THEN v ELSE m[x]]
MapDelete(m, k) == [x \in (DOMAIN m) \ {k} |-> m[x]]

\* The container and tab ids of the host.
Containers == DOMAIN containerName
Tabs == DOMAIN liveTabs

\* browser.tabs.query({cookieStoreId})
TabsOf(c) == {t \in Tabs : liveTabs[t] = c}

\* The tab events not yet dispatched; the host dispatches the oldest.
Pending(events) == {events[i] : i \in DOMAIN events}
IsNextEvent(ev) == tabEvents # <<>> /\ ev = Head(tabEvents)

\* The status each instance reports through checkStatus.
bgStatus(c) == checkStatus(isLocked, openRequestCount, c)
popStatus(c) == checkStatus(popIsLocked, popOpenRequestCount, c)

\* The setting in a profile where nothing has touched it.
FreshSetting == [value |-> TRUE, levelOfControl |-> "controllable_by_this_extension"]

\* The step makes no call of disableWebRtc or resetWebRtc.
GuardIdle ==
    /\ guardCall' = NoGuardCall
    /\ UNCHANGED <<webRtc, webRtcDisabledFlag>>

\* The step makes the call of disableWebRtc or resetWebRtc recorded in g.
GuardRuns(g) ==
    /\ guardCall' = g
    /\ webRtc' = SettingAfter(webRtc, g.set)
    /\ webRtcDisabledFlag' = FlagAfter(webRtcDisabledFlag, g.store)

Init ==
    /\ lockedOk \in BOOLEAN
    /\ browserInfo \in BrowserInfos
    /\ listening = FALSE
    /\ isLocked = EmptyMap
    /\ openRequestCount = [c \in CookieStoreIds |-> 0]
    /\ openRequestIds = [c \in CookieStoreIds |-> {}]
    /\ closedRequestIds = [c \in CookieStoreIds |-> {}]
    /\ tabIdToCookieStoreId = [t \in TabIds |-> Absent]
    /\ cookieStoreIdToTabIds = [c \in {} |-> {}]
    /\ sends = EmptyBag
    /\ popupOpen = FALSE
    /\ popIsLocked = EmptyMap
    /\ popOpenRequestCount = [c \in CookieStoreIds |-> 0]
    /\ calls = {}
    /\ containerName = [c \in CookieStoreIds |-> Absent]
    /\ liveTabs = [t \in TabIds |-> Absent]
    /\ tabEvents = <<>>
    /\ requests = [r \in RequestIds |-> IdleRequest]
    /\ ret = NoRet
    /\ causal = NoEvents
    /\ webRtc = FreshSetting
    /\ webRtcDisabledFlag = FALSE
    /\ guardCall = NoGuardCall

-----------------------------------------------------------------------------
(* Request tracker *)

\* QuaranTab.onRequestCountChanged in the background, up to the await of
\* sendMessage (lines 377-383): the send is "sent" while the open popup has
\* it to handle, "answered" once the popup has handled it, and "failed"
\* when there is no popup to receive it.
CountSend(c, count) ==
    [cookieStoreId |-> c, count |-> count,
     st |-> IF popupOpen THEN "sent" ELSE "failed"]

\* A sendMessage with no handler for its rejection.
uncaught(st) == st

\* sendMessage(message).catch(err => {}): what the caller of a send of the
\* background to the popup gets (lines 334-335, 383-384, 455-456, 479-480).
caught(st) == IF st = "failed" THEN "answered" ELSE st

\* Daemon.trackRequestStateChanged up to its suspension inside
\* onRequestCountChanged.  Throws: checkStatus rejects.
trackThrows(c) == c # Undefined /\ ~lockedOk

TrackRequestStateChanged(c, requestId, requestState) ==
    IF c = Undefined \/ trackThrows(c) \/ bgStatus(c) = NONE
    THEN UNCHANGED <<openRequestIds, closedRequestIds, sends>>
    ELSE LET t == trackSets(openRequestIds[c], closedRequestIds[c],
                            requestId, requestState)
         IN /\ openRequestIds' = [openRequestIds EXCEPT ![c] = t.open]
            /\ closedRequestIds' = [closedRequestIds EXCEPT ![c] = t.closed]
            /\ IF t.notify
               THEN /\ BagCardinality(sends) < MaxSends
                    /\ sends' = sends (+) SetToBag({CountSend(c, t.count)})
               ELSE sends' = sends

-----------------------------------------------------------------------------
(* Host: web requests.  The host fires proxy.onRequest before any of the
   webRequest events of the same request; a request the proxy hook sent to
   the dead proxy is still presented to the webRequest hook, and fails when
   it goes out.  phase: idle, p_ok / p_blk (the proxy hook allowed /
   blocked, webRequest hook to come), inflight, cancelled, redirecting,
   done. *)

\* checkStatus(c) is fulfilled: checkStatus(undefined) returns NONE without
\* awaiting the map, so it cannot reject.
StatusOk(c) == c = Undefined \/ lockedOk

\* The status the hook read, as reported in ret.
StatusRead(c) == IF StatusOk(c) THEN bgStatus(c) ELSE Rejected

HookRet(entry, c, d, res) ==
    [entry |-> entry, status |-> StatusRead(c), details |-> d,
     response |-> res.response, track |-> res.track,
     err |-> res.err, escaped |-> res.escaped]

AfterWebHook(phase, response) ==
    IF response = REDIRECT THEN "redirecting"
    ELSE IF response = BLOCK THEN "cancelled"
    ELSE IF phase = "p_ok" THEN "inflight" ELSE "cancelled"

AfterProxyHook(response) == IF response = ALLOW THEN "p_ok" ELSE "p_blk"

\* The host's record of a request after a hook answered; the details are
\* kept only while the other hook is still to be called.
Decided(phase, c, d) ==
    [phase |-> phase, cookieStoreId |-> c,
     details |-> IF phase \in {"p_ok", "p_blk"} THEN d ELSE NoDetails]

\* A new request of one of our containers comes from a live tab of it; the
\* browser always has requests of containers that are not ours, and of no
\* container.
NewRequest(r, c) ==
    /\ requests[r].phase = "idle"
    /\ c \in Containers => TabsOf(c) # {}

\* webRequest.onBeforeRequest -> Daemon.webRequestOnBeforeRequestBlocking
WebRequestOnBeforeRequest(r, secErr) ==
    /\ listening
    /\ requests[r].phase \in {"p_ok", "p_blk"}
    /\ LET c == requests[r].cookieStoreId
           d == requests[r].details
           res == webRequestOnBeforeRequestBlocking(
                      StatusOk(c), bgStatus(c), d, browserInfo, secErr)
       IN /\ IF res.track = "open"
             THEN TrackRequestStateChanged(c, r, "open")
             ELSE UNCHANGED <<openRequestIds, closedRequestIds, sends>>
          /\ requests' = [requests EXCEPT ![r] =
                 Decided(AfterWebHook(requests[r].phase, res.response), c, d)]
          /\ ret' = HookRet("webRequestOnBeforeRequestBlocking", c, d, res)
    /\ UNCHANGED <<lockedOk, browserInfo, listening, isLocked, openRequestCount,
                   tabIdToCookieStoreId, cookieStoreIdToTabIds>>
    /\ UNCHANGED <<popVars, containerName, liveTabs, tabEvents>>
    /\ UNCHANGED causal
    /\ GuardIdle

\* proxy.onRequest -> Daemon.onProxyRequest
ProxyOnRequest(r, c, d) ==
    /\ listening
    /\ NewRequest(r, c)
    /\ LET res == onProxyRequest(StatusOk(c), bgStatus(c), d, browserInfo)
       IN /\ IF res.track = "block"
             THEN TrackRequestStateChanged(c, r, "block")
             ELSE UNCHANGED <<openRequestIds, closedRequestIds, sends>>
          /\ requests' = [requests EXCEPT ![r] =
                 Decided(AfterProxyHook(res.response), c, d)]
          /\ ret' = HookRet("onProxyRequest", c, d, res)
    /\ UNCHANGED <<lockedOk, browserInfo, listening, isLocked, openRequestCount,
                   tabIdToCookieStoreId, cookieStoreIdToTabIds>>
    /\ UNCHANGED <<popVars, containerName, liveTabs, tabEvents>>
    /\ UNCHANGED causal
    /\ GuardIdle

\* The catch clause of a handler that returns nothing (trackRequestStateChanged,
\* onTabCreated, onTabRemoved): an error thrown inside is logged and does
\* not leave the handler.  A run without an error gives the host nothing.
voidCatch(entry, threw) ==
    IF threw THEN [entry |-> entry, err |-> TRUE, escaped |-> FALSE] ELSE NoRet

\* The entry points that call trackRequestStateChanged without awaiting
\* it; its own try/catch swallows a rejection of checkStatus.
TrackRet(c) == voidCatch("trackRequestStateChanged", trackThrows(c))

\* webRequest.onCompleted / onErrorOccurred / onBeforeRedirect for a request
\* that went out, and onErrorOccurred / onBeforeRedirect for one a hook
\* cancelled or redirected.  Without the listeners the event is not seen.
RequestEnds(r, requestState) ==
    /\ requests[r].phase \in {"inflight", "cancelled", "redirecting"}
    /\ requestState \in
         CASE requests[r].phase = "inflight" -> {"completed", "error", "redirect"}
           [] requests[r].phase = "cancelled" -> {"error"}
           [] OTHER -> {"redirect"}
    /\ IF listening
       THEN /\ TrackRequestStateChanged(requests[r].cookieStoreId, r, requestState)
            /\ ret' = TrackRet(requests[r].cookieStoreId)
       ELSE /\ UNCHANGED <<openRequestIds, closedRequestIds, sends>>
            /\ ret' = NoRet
    /\ requests' = [requests EXCEPT ![r] =
           IF requestState = "redirect"
           THEN [IdleRequest EXCEPT !.phase = "idle"]
           ELSE [IdleRequest EXCEPT !.phase = "done"]]
    /\ UNCHANGED <<lockedOk, browserInfo, listening, isLocked, openRequestCount,
                   tabIdToCookieStoreId, cookieStoreIdToTabIds>>
    /\ UNCHANGED <<popVars, containerName, liveTabs, tabEvents>>
    /\ UNCHANGED causal
    /\ GuardIdle

-----------------------------------------------------------------------------
(* Cross-process messages *)

\* QuaranTab.onRequestCountChanged, lines 401-405: the cache update
cacheCount(count) == IF count <= 0 THEN 0 ELSE count

\* QuaranTab.onRequestCountChanged in the background, after the await of
\* sendMessage (answered by the popup, or failed and caught).
BgCountChangedResume(e) ==
    /\ BagIn(e, sends)
    /\ e.st \in {"answered", "failed"}
    /\ openRequestCount' =
           IF caught(e.st) = "failed"
           THEN openRequestCount
           ELSE [openRequestCount EXCEPT ![e.cookieStoreId] = cacheCount(e.count)]
    /\ sends' = sends (-) SetToBag({e})
    /\ ret' = NoRet
    /\ UNCHANGED <<lockedOk, browserInfo, listening, isLocked, openRequestIds,
                   closedRequestIds, tabIdToCookieStoreId, cookieStoreIdToTabIds>>
    /\ UNCHANGED <<popVars, hostVars>>
    /\ UNCHANGED causal
    /\ GuardIdle

\* QuaranTab.onRequestCountChanged, lines 393-399: the popup promotes a
\* locked container to CLOSED
promotes(locked, cached, c, count) ==
    /\ count = 0
    /\ cached[c] # 0
    /\ c \in DOMAIN locked
    /\ locked[c] = TRUE

SetIsLockedCall(origin, c, status) ==
    [origin |-> origin, cookieStoreId |-> c, status |-> status,
     st |-> "sent", waiting |-> TRUE]

\* openTabInQuarantine called without and with lockAfterLoadWithCallback
OpenOrigins == {"openTabInQuarantine", "openTabInQuarantine(lockAfterLoad)"}

\* QuaranTab.openTabInQuarantine, lines 188-206: the tabs.onUpdated
\* listener the popup registers for the lock after load.  st: "armed"
\* while registered, "timer" while it waits its second after the
\* completion.  waiting: the popup page that holds it is there.
LockListener(t, c) ==
    [origin |-> "onUpdatedListener", cookieStoreId |-> c, status |-> "complete",
     st |-> "armed", waiting |-> TRUE, tabId |-> t]

IsLockListener(call) == call.origin = "onUpdatedListener"

\* The popup's message listener for ON_REQUEST_COUNT_CHANGED
\* (_initializeRunner, line 563) -> onRequestCountChanged
PopupOnRequestCountChanged(e) ==
    /\ popupOpen
    /\ BagIn(e, sends)
    /\ e.st = "sent"
    /\ calls' = IF promotes(popIsLocked, popOpenRequestCount, e.cookieStoreId, e.count)
                THEN calls \cup {SetIsLockedCall("onRequestCountChanged",
                                                 e.cookieStoreId, CLOSED)}
                ELSE calls
    /\ popOpenRequestCount' =
           [popOpenRequestCount EXCEPT ![e.cookieStoreId] = cacheCount(e.count)]
    /\ sends' = (sends (-) SetToBag({e})) (+) SetToBag({[e EXCEPT !.st = "answered"]})
    /\ ret' = NoRet
    /\ UNCHANGED <<lockedOk, browserInfo, listening, isLocked, openRequestCount,
                   openRequestIds, closedRequestIds, tabIdToCookieStoreId,
                   cookieStoreIdToTabIds>>
    /\ UNCHANGED <<popupOpen, popIsLocked, hostVars>>
    /\ UNCHANGED causal
    /\ GuardIdle

\* QuaranTab._setIsLocked, lines 686-698: the map update
setIsLockedMap(locked, c, status) ==
    CASE status = OPEN -> MapSet(locked, c, FALSE)
      [] status \in {CLOSING, CLOSED} -> MapSet(locked, c, TRUE)
      [] OTHER -> MapDelete(locked, c)

\* A sweep for every call that leaves the container locked.
sweepsWhenLocked(locked, c, status) ==
    LET after == setIsLockedMap(locked, c, status)
    IN c \in DOMAIN after /\ after[c] = TRUE

\* QuaranTab._setIsLocked, lines 701-705: the background runs the
\* termination sweep when the container becomes locked
sweeps(locked, c, status) ==
    /\ ~(c \in DOMAIN locked /\ locked[c] = TRUE)
    /\ LET after == setIsLockedMap(locked, c, status)
       IN c \in DOMAIN after /\ after[c] = TRUE

\* The background's message listener for SET_QUARANTINE_STATUS
\* (_initializeRunner, lines 538-541) -> _setIsLocked.  It rejects when the
\* map promise is rejected, and after the map update when the sweep
\* (_onNetworkClose: script injection into the container's tabs) fails.
BgOnSetQuarantineStatus(call, sweepOk) ==
    /\ call \in calls
    /\ call.status \in QuarantineStatus
    /\ call.st = "sent"
    /\ LET c == call.cookieStoreId
           swept == lockedOk /\ sweeps(isLocked, c, call.status) /\ TabsOf(c) # {}
           ok == lockedOk /\ (swept => sweepOk)
       IN /\ isLocked' = IF lockedOk THEN setIsLockedMap(isLocked, c, call.status)
                         ELSE isLocked
          /\ calls' = (calls \ {call}) \cup
                 (IF call.waiting
                  THEN {[call EXCEPT !.st = IF ok THEN "ok" ELSE "failed"]}
                  ELSE {})
    /\ ret' = NoRet
    /\ UNCHANGED <<lockedOk, browserInfo, listening, openRequestCount,
                   openRequestIds, closedRequestIds, tabIdToCookieStoreId,
                   cookieStoreIdToTabIds, sends>>
    /\ UNCHANGED <<popupOpen, popIsLocked, popOpenRequestCount, hostVars>>
    /\ UNCHANGED causal
    /\ GuardIdle

\* QuaranTab._updateContainerColor (popup only): the container is renamed
\* after the status passed to _setIsLocked
updatedName(name, status) ==
    IF name = Absent \/ status \notin {OPEN, CLOSING, CLOSED} THEN name
    ELSE _getQuaranTabContainerName(status = CLOSED)

\* QuaranTab._setIsLocked in the popup, after the await of sendMessage:
\* lines 686-712, and for the call made by openTabInQuarantine the
\* tabs.create that follows it (lines 175-181).  A failed send throws.
PopupSetIsLockedResume(call, t) ==
    /\ popupOpen
    /\ call \in calls
    /\ call.status \in QuarantineStatus
    /\ call.st \in {"ok", "failed"}
    /\ calls' = (calls \ {call}) \cup
                (IF call.st = "ok" /\ call.origin = "openTabInQuarantine(lockAfterLoad)"
                 THEN {LockListener(t, call.cookieStoreId)} ELSE {})
    /\ IF call.st = "ok"
       THEN /\ popIsLocked' = setIsLockedMap(popIsLocked, call.cookieStoreId, call.status)
            /\ containerName' = [containerName EXCEPT ![call.cookieStoreId] =
                                     updatedName(@, call.status)]
            /\ IF call.origin \in OpenOrigins
               THEN /\ liveTabs[t] = Absent
                    /\ \A ev \in Pending(tabEvents) : ev.tabId # t
                    /\ tabIdToCookieStoreId[t] = Absent
                    /\ liveTabs' = [liveTabs EXCEPT ![t] = call.cookieStoreId]
                    /\ tabEvents' = Append(tabEvents,
                           [kind |-> "created", tabId |-> t,
                            cookieStoreId |-> call.cookieStoreId])
               ELSE UNCHANGED <<liveTabs, tabEvents>>
       ELSE UNCHANGED <<popIsLocked, containerName, liveTabs, tabEvents>>
    /\ ret' = NoRet
    /\ UNCHANGED <<bgVars, popupOpen, popOpenRequestCount, requests>>
    /\ UNCHANGED causal
    /\ GuardIdle

-----------------------------------------------------------------------------
(* Popup *)

\* QuaranTab._loadContainerState, lines 722-743, on the containers and tabs
\* of the host: the map it returns, and the containers it removes.
loadedMap(names, hasTabs) ==
    [c \in {k \in DOMAIN names :
               /\ names[k] # Absent
               /\ _getStatusFromContainerName(names[k]) # NONE
               /\ hasTabs[k]}
       |-> _getStatusFromContainerName(names[c]) = CLOSED]

loadedNames(names, hasTabs) ==
    [c \in DOMAIN names |->
        IF /\ names[c] # Absent
           /\ _getStatusFromContainerName(names[c]) # NONE
           /\ ~hasTabs[c]
        THEN Absent ELSE names[c]]

HasTabs == [c \in Containers |-> TabsOf(c) # {}]

\* QuaranTab._loadContainerState, lines 744-752: _startup when a container
\* of ours has tabs, _shutdown otherwise; of either, the call of
\* disableWebRtc / resetWebRtc.
loadedGuardCall(runner, loaded, setting, flag) ==
    IF DOMAIN loaded # {} THEN disableWebRtc(runner, setting)
    ELSE resetWebRtc(runner, setting, flag)

\* The user opens the popup: a new QuaranTab(Runner.POPUP) is constructed
\* and loads its map from the container names.  (A popup whose load fails on
\* disableWebRtc has a rejected map and shows no container; it is left out.)
PopupOpens ==
    /\ ~popupOpen
    /\ popupOpen' = TRUE
    /\ popIsLocked' = loadedMap(containerName, HasTabs)
    /\ containerName' = loadedNames(containerName, HasTabs)
    /\ popOpenRequestCount' = [c \in Containers |-> 0]
    /\ ret' = NoRet
    /\ UNCHANGED <<bgVars, calls, liveTabs, tabEvents, requests>>
    /\ UNCHANGED causal
    /\ LET g == loadedGuardCall("popup", loadedMap(containerName, HasTabs),
                                webRtc, webRtcDisabledFlag)
       IN ~g.threw /\ GuardRuns(g)

\* A send whose receiver has gone before handling it fails.
failSend(e) == IF e.st = "sent" THEN [e EXCEPT !.st = "failed"] ELSE e

FailedSends(bag) ==
    [x \in {failSend(e) : e \in BagToSet(bag)} |->
        CopiesIn(x, bag)
            + IF x.st = "failed" THEN CopiesIn([x EXCEPT !.st = "sent"], bag) ELSE 0]

\* The popup closes: its instance and the continuations of its calls are
\* gone; a SET_QUARANTINE_STATUS it has sent is still delivered.  Its
\* tabs.onUpdated listeners are gone with the page: their records stay, not
\* waiting, to tell which tabs were to be locked after load.
PopupCloses ==
    /\ popupOpen
    /\ popupOpen' = FALSE
    /\ popIsLocked' = EmptyMap
    /\ popOpenRequestCount' = [c \in Containers |-> 0]
    /\ calls' = {[call EXCEPT !.waiting = FALSE] :
                     call \in {k \in calls : k.st = "sent" \/ IsLockListener(k)}}
    /\ sends' = FailedSends(sends)
    /\ ret' = NoRet
    /\ UNCHANGED <<lockedOk, browserInfo, listening, isLocked, openRequestCount,
                   openRequestIds, closedRequestIds, tabIdToCookieStoreId,
                   cookieStoreIdToTabIds>>
    /\ UNCHANGED hostVars
    /\ UNCHANGED causal
    /\ GuardIdle

\* Popup.tsx: the buttons are disabled (loading) while a click is handled.
UiBusy == \E call \in calls :
              call.waiting /\ call.origin \in OpenOrigins \cup {"lockQuarantine"}

\* The message of the startup handshake, in the place a call of
\* _setIsLocked has its status; the container does not exist yet.
AboutToStart == "CONTAINER_ABOUT_TO_START"

\* A cookieStoreId the host can give to a new container.
FreeCookieStoreId(c) ==
    /\ containerName[c] = Absent
    /\ c \notin DOMAIN isLocked
    /\ \A k \in calls : k.cookieStoreId # c

\* QuaranTab.openTabInQuarantine, lines 156-163: the popup sends
\* CONTAINER_ABOUT_TO_START and waits for the answer of the background.
\* (The containers of the model are few: the user asks for one while the
\* host has an id left for it.)
PopupOpenTabInQuarantine ==
    /\ popupOpen
    /\ ~UiBusy
    /\ \E c \in Containers : FreeCookieStoreId(c)
    /\ calls' = calls \cup {SetIsLockedCall("openTabInQuarantine", Undefined, AboutToStart)}
    /\ ret' = NoRet
    /\ UNCHANGED <<bgVars, popupOpen, popIsLocked, popOpenRequestCount, hostVars>>
    /\ UNCHANGED causal
    /\ GuardIdle

\* The background's message listener for CONTAINER_ABOUT_TO_START
\* (_initializeRunner, lines 543-546) -> _startup: the blocking listeners
\* are registered, then WebRTC is disabled.  An error of disableWebRtc
\* rejects the popup's send.
BgOnContainerAboutToStart(call) ==
    /\ call \in calls
    /\ call.status = AboutToStart
    /\ call.st = "sent"
    /\ listening' = TRUE
    /\ LET g == disableWebRtc("background", webRtc)
       IN /\ GuardRuns(g)
          /\ calls' = (calls \ {call}) \cup
                 (IF call.waiting
                  THEN {[call EXCEPT !.st = IF g.threw THEN "failed" ELSE "ok"]}
                  ELSE {})
    /\ ret' = NoRet
    /\ UNCHANGED <<lockedOk, browserInfo, isLocked, openRequestCount,
                   openRequestIds, closedRequestIds, tabIdToCookieStoreId,
                   cookieStoreIdToTabIds, sends>>
    /\ UNCHANGED <<popupOpen, popIsLocked, popOpenRequestCount, hostVars>>
    /\ UNCHANGED causal

\* openTabInQuarantine goes on without the answer of the background.
handshakeIgnored(call) == TRUE

\* QuaranTab.openTabInQuarantine, line 163: the await of the send returns
\* when the background has answered, and throws when it has failed.
handshakeAcked(call) == call.st = "ok"

\* QuaranTab.openTabInQuarantine, lines 163-172, after the await of the
\* handshake: the creation of the container, and the send of
\* SET_QUARANTINE_STATUS(OPEN).  The host gives every new container a
\* fresh cookieStoreId.
PopupHandshakeResume(call, c) ==
    /\ popupOpen
    /\ call \in calls
    /\ call.status = AboutToStart
    /\ call.st \in {"ok", "failed"}
    /\ IF handshakeAcked(call)
       THEN /\ FreeCookieStoreId(c)
            /\ containerName' = [containerName EXCEPT ![c] = _getQuaranTabContainerName(FALSE)]
            /\ calls' = (calls \ {call}) \cup
                        {SetIsLockedCall(call.origin, c, OPEN)}
       ELSE /\ calls' = calls \ {call}
            /\ UNCHANGED containerName
    /\ ret' = NoRet
    /\ UNCHANGED <<bgVars, popupOpen, popIsLocked, popOpenRequestCount, liveTabs,
                   tabEvents, requests>>
    /\ UNCHANGED causal
    /\ GuardIdle

\* QuaranTab.openTabInQuarantine called with lockAfterLoadWithCallback, up
\* to the send of CONTAINER_ABOUT_TO_START.
PopupReopenTabInQuarantine ==
    /\ popupOpen
    /\ ~UiBusy
    /\ \E c \in Containers : FreeCookieStoreId(c)
    /\ calls' = calls \cup {SetIsLockedCall("openTabInQuarantine(lockAfterLoad)",
                                            Undefined, AboutToStart)}
    /\ ret' = NoRet
    /\ UNCHANGED <<bgVars, popupOpen, popIsLocked, popOpenRequestCount, hostVars>>
    /\ UNCHANGED causal
    /\ GuardIdle

\* QuaranTab.lockQuarantine, lines 223-227: the status the popup asks for
lockStatus(cached, c) == IF cached[c] > 0 THEN CLOSING ELSE CLOSED

\* QuaranTab.lockQuarantine on the current tab, offered by the popup while
\* it shows the container as OPEN, up to the send of SET_QUARANTINE_STATUS.
PopupLockQuarantine(c) ==
    /\ popupOpen
    /\ ~UiBusy
    /\ TabsOf(c) # {}
    /\ popStatus(c) = OPEN
    /\ calls' = calls \cup
           {SetIsLockedCall("lockQuarantine", c, lockStatus(popOpenRequestCount, c))}
    /\ ret' = NoRet
    /\ UNCHANGED <<bgVars, popupOpen, popIsLocked, popOpenRequestCount, hostVars>>
    /\ UNCHANGED causal
    /\ GuardIdle

-----------------------------------------------------------------------------
(* Tabs *)

TabEvent(kind, t, c) == [kind |-> kind, tabId |-> t, cookieStoreId |-> c]

\* The onRemoved events of the tabs the host closes with their container.
RECURSIVE RemovedEvents(_, _)
RemovedEvents(tabs, c) ==
    IF tabs = {} THEN <<>>
    ELSE LET t == CHOOSE x \in tabs : \A y \in tabs : x <= y
         IN <<TabEvent("removed", t, c)>> \o RemovedEvents(tabs \ {t}, c)

\* A tab id the host can give to a new tab.
FreeTab(t) ==
    /\ liveTabs[t] = Absent
    /\ tabIdToCookieStoreId[t] = Absent
    /\ \A ev \in Pending(tabEvents) : ev.tabId # t

\* A page of container c opens another tab in the same container.
HostOpensTab(t, c) ==
    /\ TabsOf(c) # {}
    /\ FreeTab(t)
    /\ liveTabs' = [liveTabs EXCEPT ![t] = c]
    /\ tabEvents' = Append(tabEvents, TabEvent("created", t, c))
    /\ ret' = NoRet
    /\ UNCHANGED <<bgVars, popVars, containerName, requests>>
    /\ UNCHANGED causal
    /\ GuardIdle

\* The user opens a tab in a container that is not ours, or a tab for which
\* the host reports no cookieStoreId.
HostOpensForeignTab(t, c) ==
    /\ FreeTab(t)
    /\ liveTabs' = [liveTabs EXCEPT ![t] = c]
    /\ tabEvents' = Append(tabEvents, TabEvent("created", t, c))
    /\ ret' = NoRet
    /\ UNCHANGED <<bgVars, popVars, containerName, requests>>
    /\ UNCHANGED causal
    /\ GuardIdle

\* The user (or purgeQurantine) closes a tab.
HostClosesTab(t) ==
    /\ liveTabs[t] # Absent
    /\ liveTabs' = [liveTabs EXCEPT ![t] = Absent]
    /\ tabEvents' = Append(tabEvents, TabEvent("removed", t, liveTabs[t]))
    /\ ret' = NoRet
    /\ UNCHANGED <<bgVars, popVars, containerName, requests>>
    /\ UNCHANGED causal
    /\ GuardIdle

\* An onTabCreated that tracks the tab of any container.
tracksAnyTab(locked, c) == c # Undefined

\* QuaranTab.onTabCreated, lines 418-423: the tab has a cookieStoreId and
\* its container has an entry in _cookieStoreIdToIsLocked.
tracksTab(locked, c) == c # Undefined /\ c \in DOMAIN locked

\* tabs.onCreated -> Daemon.onTabCreated -> QuaranTab.onTabCreated
DaemonOnTabCreated(ev) ==
    /\ IsNextEvent(ev)
    /\ ev.kind = "created"
    /\ tabEvents' = Tail(tabEvents)
    /\ IF lockedOk /\ tracksTab(isLocked, ev.cookieStoreId)
       THEN /\ tabIdToCookieStoreId' =
                   [tabIdToCookieStoreId EXCEPT ![ev.tabId] = ev.cookieStoreId]
            /\ cookieStoreIdToTabIds' =
                   MapSet(cookieStoreIdToTabIds, ev.cookieStoreId,
                          (IF ev.cookieStoreId \in DOMAIN cookieStoreIdToTabIds
                           THEN cookieStoreIdToTabIds[ev.cookieStoreId] ELSE {})
                          \cup {ev.tabId})
       ELSE UNCHANGED <<tabIdToCookieStoreId, cookieStoreIdToTabIds>>
    /\ ret' = voidCatch("onTabCreated", ev.cookieStoreId # Undefined /\ ~lockedOk)
    /\ UNCHANGED <<lockedOk, browserInfo, listening, isLocked, openRequestCount,
                   openRequestIds, closedRequestIds, sends>>
    /\ UNCHANGED <<popVars, containerName, liveTabs, requests>>
    /\ UNCHANGED causal
    /\ GuardIdle

\* tabs.onCreated for a tab of a container that is not ours: onTabCreated
\* returns at line 421 without tracking it.
ForeignTabCreated(c) ==
    /\ ret' = voidCatch("onTabCreated", ~lockedOk)
    /\ UNCHANGED <<bgVars, popVars, hostVars>>
    /\ UNCHANGED causal
    /\ GuardIdle

\* A removal handler that goes on to the removal of the container whatever
\* tabs the container still has in _cookieStoreIdToTabIds.
removesWithTabsLeft(t) ==
    LET c == tabIdToCookieStoreId[t]
    IN /\ c # Absent
       /\ c \in DOMAIN cookieStoreIdToTabIds
       /\ containerName[c] # Absent

\* QuaranTab.onTabClosed reaches the removal of the container (line 524):
\* the tab was the last one mapped to its container, and the container
\* exists.
reachesRemove(t) ==
    LET c == tabIdToCookieStoreId[t]
    IN /\ c # Absent
       /\ c \in DOMAIN cookieStoreIdToTabIds
       /\ cookieStoreIdToTabIds[c] \ {t} = {}
       /\ containerName[c] # Absent

\* What a run of Daemon.onTabRemoved did: the error it caught (the removal
\* of the container failed), whether the tab was tracked, how many other
\* tabs its container had in _cookieStoreIdToTabIds, whether the container
\* was removed, and whether _shutdown was called.
tabClosedRet(threw, tracked, rest, removed, shutdown) ==
    [entry |-> "onTabRemoved", err |-> threw, escaped |-> FALSE,
     tracked |-> tracked, rest |-> rest, removed |-> removed,
     shutdown |-> shutdown]

\* QuaranTab.onTabClosed, lines 527-530: after the removal of a container,
\* _shutdown when no container has tracked tabs.
shutsDown(tabMap) == DOMAIN tabMap = {}

\* tabs.onRemoved -> Daemon.onTabRemoved -> QuaranTab.onTabClosed.
\* removeOk: contextualIdentities.remove succeeds; the host then closes
\* whatever tabs the container still has.  _shutdown unregisters the
\* blocking listeners.
DaemonOnTabRemoved(ev, removeOk) ==
    /\ IsNextEvent(ev)
    /\ ev.kind = "removed"
    /\ LET t == ev.tabId
           c == tabIdToCookieStoreId[t]
           known == c # Absent /\ c \in DOMAIN cookieStoreIdToTabIds
           rest == IF known THEN cookieStoreIdToTabIds[c] \ {t} ELSE {}
           removing == reachesRemove(t)
           mapAfter == IF ~known THEN cookieStoreIdToTabIds
                       ELSE IF rest # {} THEN MapSet(cookieStoreIdToTabIds, c, rest)
                       ELSE MapDelete(cookieStoreIdToTabIds, c)
       IN /\ tabIdToCookieStoreId' = [tabIdToCookieStoreId EXCEPT ![t] = Absent]
          /\ cookieStoreIdToTabIds' = mapAfter
          /\ IF removing /\ removeOk
             THEN /\ containerName' = [containerName EXCEPT ![c] = Absent]
                  /\ liveTabs' = [x \in Tabs |->
                                     IF liveTabs[x] = c THEN Absent ELSE liveTabs[x]]
                  /\ tabEvents' = Tail(tabEvents) \o RemovedEvents(TabsOf(c), c)
                  /\ IF shutsDown(mapAfter)
                     THEN /\ listening' = FALSE
                          /\ GuardRuns(resetWebRtc("background", webRtc,
                                                   webRtcDisabledFlag))
                     ELSE /\ UNCHANGED listening
                          /\ GuardIdle
             ELSE /\ tabEvents' = Tail(tabEvents)
                  /\ UNCHANGED <<containerName, liveTabs, listening>>
                  /\ GuardIdle
          /\ ret' = tabClosedRet(removing /\ ~removeOk, known, Cardinality(rest),
                                 removing /\ removeOk,
                                 removing /\ removeOk /\ shutsDown(mapAfter))
    /\ UNCHANGED <<lockedOk, browserInfo, isLocked, openRequestCount,
                   openRequestIds, closedRequestIds, sends>>
    /\ UNCHANGED <<popVars, requests>>
    /\ UNCHANGED causal

-----------------------------------------------------------------------------
(* Specification *)

AllCookieStoreIds == CookieStoreIds \cup ForeignCookieStoreIds \cup {Undefined}

\* The hooks and the completion events of the requests with ids in R and
\* details in D, of the containers in C.
RequestSteps(R, D, C) ==
    \/ \E r \in R, c \in C, d \in D : ProxyOnRequest(r, c, d)
    \/ \E r \in R, secErr \in BOOLEAN : WebRequestOnBeforeRequest(r, secErr)
    \/ \E r \in R, s \in RequestStates : RequestEnds(r, s)

\* The messages between the background and the popup.
MessageSteps ==
    \/ \E e \in BagToSet(sends) : BgCountChangedResume(e)
    \/ \E e \in BagToSet(sends) : PopupOnRequestCountChanged(e)
    \/ \E call \in calls, sweepOk \in BOOLEAN : BgOnSetQuarantineStatus(call, sweepOk)
    \/ \E call \in calls, t \in Tabs : PopupSetIsLockedResume(call, t)
    \/ \E call \in calls : BgOnContainerAboutToStart(call)
    \/ \E call \in calls, c \in Containers : PopupHandshakeResume(call, c)

\* The calls of the popup that the background answers: the startup
\* handshake and SET_QUARANTINE_STATUS.
CallSteps ==
    \/ \E call \in calls, sweepOk \in BOOLEAN : BgOnSetQuarantineStatus(call, sweepOk)
    \/ \E call \in calls, t \in Tabs : PopupSetIsLockedResume(call, t)
    \/ \E call \in calls : BgOnContainerAboutToStart(call)
    \/ \E call \in calls, c \in Containers : PopupHandshakeResume(call, c)

\* The user opens the popup, opens a tab in quarantine and locks it; the
\* background sees the new tab.
UserSteps ==
    \/ PopupOpens
    \/ PopupOpenTabInQuarantine
    \/ \E c \in Containers : PopupLockQuarantine(c)
    \/ \E ev \in Pending(tabEvents) : DaemonOnTabCreated(ev)

\* Tabs are closed, and with the last one its container is removed.
TabClosingSteps ==
    \/ \E t \in Tabs : HostClosesTab(t)
    \/ \E ev \in Pending(tabEvents), removeOk \in BOOLEAN : DaemonOnTabRemoved(ev, removeOk)

\* The whole system.
Next ==
    \/ RequestSteps(RequestIds, RequestDetails, AllCookieStoreIds)
    \/ MessageSteps
    \/ UserSteps
    \/ TabClosingSteps
    \/ PopupCloses
    \/ \E c \in ForeignCookieStoreIds : ForeignTabCreated(c)
    \/ \E t \in Tabs, c \in Containers : HostOpensTab(t, c)

Spec == Init /\ [][Next]_vars

\* The decisions of the hooks: one request at a time, of every kind and of
\* every container, in every build of the browser.
DecideRequestIds == {1}

NextDecide ==
    \/ RequestSteps(DecideRequestIds, RequestDetails, AllCookieStoreIds)
    \/ MessageSteps
    \/ UserSteps

SpecDecide == Init /\ [][NextDecide]_vars

\* The errors of the entry points: a request that is a websocket or not,
\* of a container that is ours or not, tabs that are created and closed,
\* in every build of the browser.
ErrorDetails == {d \in RequestDetails : d.type \in {"websocket", "xmlhttprequest"}}

NextErrors ==
    \/ RequestSteps(DecideRequestIds, ErrorDetails,
                    CookieStoreIds \cup ForeignCookieStoreIds)
    \/ MessageSteps
    \/ UserSteps
    \/ TabClosingSteps
    \/ \E c \in ForeignCookieStoreIds : ForeignTabCreated(c)

SpecErrors == Init /\ [][NextErrors]_vars

\* The life of a container in Mozilla Firefox with its map loaded: requests
\* of a tracked kind, the count notifications and the lock.
InitFirefox ==
    /\ Init
    /\ lockedOk
    /\ browserInfo = [ok |-> TRUE, name |-> "Firefox", vendor |-> "Mozilla"]

TrackedDetails == {d \in RequestDetails : d.type = "xmlhttprequest"}

NextTrack ==
    \/ RequestSteps(RequestIds, TrackedDetails, CookieStoreIds)
    \/ MessageSteps
    \/ UserSteps

SpecTrack == InitFirefox /\ [][NextTrack]_vars

\* The same with one request, and a popup that is closed and opened again.
NextPopup ==
    \/ RequestSteps(DecideRequestIds, TrackedDetails, CookieStoreIds)
    \/ MessageSteps
    \/ UserSteps
    \/ PopupCloses

SpecPopup == InitFirefox /\ [][NextPopup]_vars

-----------------------------------------------------------------------------
(* Notices of the background to the popup: sends that are not awaited, and
   whose rejection is caught. *)

\* What a listener of the Daemon that sends a notice gives back: threw is
\* an error on the way to the send (caught by the Daemon, the send is not
\* made); delivered, the popup was there to get the message; escaped, the
\* rejection of the send was left unhandled.
NoticeRet(entry, type, threw) ==
    LET st == IF popupOpen THEN "answered" ELSE "failed"
    IN [entry |-> entry, type |-> type, threw |-> threw,
        sent |-> ~threw,
        delivered |-> ~threw /\ popupOpen,
        escaped |-> ~threw /\ caught(st) = "failed"]

\* Daemon.onTabUpdated -> QuaranTab.onTabUpdated
DaemonOnTabUpdated(t) ==
    /\ liveTabs[t] # Absent
    /\ ret' = NoticeRet("onTabUpdated", "ON_TAB_UPDATED", FALSE)
    /\ UNCHANGED <<bgVars, popVars, hostVars, causal>>
    /\ GuardIdle

\* QuaranTab._updateExtensionIcon: checkStatus of the active tab rejects
\* when the map of containers could not be loaded.
iconThrows == ~lockedOk

\* Daemon.onTabActivated -> QuaranTab.onTabActivated
DaemonOnTabActivated(t) ==
    /\ liveTabs[t] # Absent
    /\ ret' = NoticeRet("onTabActivated", "ON_TAB_ACTIVATED", iconThrows)
    /\ UNCHANGED <<bgVars, popVars, hostVars, causal>>
    /\ GuardIdle

-----------------------------------------------------------------------------
(* Tabs and containers over the life of the background, which may start in
   a browser that already has containers of ours with tabs (a restart of
   the browser or of the extension): its constructor loads the map of
   containers from their names and starts up or shuts down, and knows
   nothing of the tabs that exist. *)

MoreCookieStoreIds == {"c1", "c2"}
MoreTabIds == 1..(MaxTabs + 1)

\* The setting after this extension disabled WebRTC.
SuppressedSetting == SettingAfter(FreshSetting, "false")

\* The state after the construction of the Daemon in a host with the
\* containers `names`, the tabs `tabs`, and WebRTC disabled by an earlier
\* run of the extension or not (QuaranTab constructor, lines 73-81, and
\* _loadContainerState).
Recovered(names, tabs, suppressed) ==
    LET hasTabs == [c \in DOMAIN names |-> \E t \in DOMAIN tabs : tabs[t] = c]
        loaded == loadedMap(names, hasTabs)
        setting == IF suppressed THEN SuppressedSetting ELSE FreshSetting
        g == loadedGuardCall("background", loaded, setting, suppressed)
    IN /\ lockedOk = ~g.threw
       /\ browserInfo = [ok |-> TRUE, name |-> "Firefox", vendor |-> "Mozilla"]
       /\ listening = (DOMAIN loaded # {})
       /\ isLocked = loaded
       /\ openRequestCount = [c \in DOMAIN names |-> 0]
       /\ openRequestIds = [c \in DOMAIN names |-> {}]
       /\ closedRequestIds = [c \in DOMAIN names |-> {}]
       /\ tabIdToCookieStoreId = [t \in DOMAIN tabs |-> Absent]
       /\ cookieStoreIdToTabIds = [c \in {} |-> {}]
       /\ sends = EmptyBag
       /\ popupOpen = FALSE
       /\ popIsLocked = EmptyMap
       /\ popOpenRequestCount = [c \in DOMAIN names |-> 0]
       /\ calls = {}
       /\ containerName = loadedNames(names, hasTabs)
       /\ liveTabs = tabs
       /\ tabEvents = <<>>
       /\ requests = [r \in RequestIds |-> IdleRequest]
       /\ ret = NoRet
       /\ causal = NoEvents
       /\ webRtc = SettingAfter(setting, g.set)
       /\ webRtcDisabledFlag = FlagAfter(suppressed, g.store)
       /\ guardCall = NoGuardCall

InitRecovered ==
    \E names \in [MoreCookieStoreIds ->
                     {Absent, _getQuaranTabContainerName(FALSE),
                      _getQuaranTabContainerName(TRUE)}],
       tabs \in [MoreTabIds -> MoreCookieStoreIds \cup {Absent}],
       suppressed \in BOOLEAN :
        /\ \A t \in MoreTabIds : tabs[t] # Absent => names[tabs[t]] # Absent
        /\ suppressed = (\E c \in MoreCookieStoreIds : names[c] # Absent)
        /\ Recovered(names, tabs, suppressed)

NextTabs ==
    \/ UserSteps
    \/ CallSteps
    \/ TabClosingSteps
    \/ \E t \in Tabs, c \in Containers : HostOpensTab(t, c)

SpecTabs == InitRecovered /\ [][NextTabs]_vars

\* The same with tabs of other containers, and a background whose map of
\* containers may have failed to load.
InitSurfaces == Init \/ InitRecovered

NextSurfaces ==
    \/ NextTabs
    \/ \E t \in Tabs, c \in ForeignCookieStoreIds \cup {Undefined} :
           HostOpensForeignTab(t, c)

SpecSurfaces == InitSurfaces /\ [][NextSurfaces]_vars

-----------------------------------------------------------------------------
(* The global guard: the WebRTC setting in any state at the start, and
   changed at any time by the user, a policy or another extension. *)

\* The setting is changed from outside this extension:
\* peerConnectionEnabled.onChange -> Daemon.peerConnectionOnChange ->
\* onWebRtcEnabledChanged, which tells the popup.
PeerConnectionOnChange(setting) ==
    /\ setting # webRtc
    /\ setting.levelOfControl = "controlled_by_this_extension"
          => webRtc.levelOfControl = "controlled_by_this_extension"
    /\ webRtc' = setting
    /\ guardCall' = NoGuardCall
    /\ ret' = NoticeRet("peerConnectionOnChange", "ON_WEBRTC_ENABLED_CHANGED", FALSE)
    /\ UNCHANGED <<bgVars, popVars, hostVars, causal, webRtcDisabledFlag>>

InitGuard ==
    /\ lockedOk = TRUE
    /\ browserInfo = [ok |-> TRUE, name |-> "Firefox", vendor |-> "Mozilla"]
    /\ listening = FALSE
    /\ isLocked = EmptyMap
    /\ openRequestCount = [c \in CookieStoreIds |-> 0]
    /\ openRequestIds = [c \in CookieStoreIds |-> {}]
    /\ closedRequestIds = [c \in CookieStoreIds |-> {}]
    /\ tabIdToCookieStoreId = [t \in TabIds |-> Absent]
    /\ cookieStoreIdToTabIds = [c \in {} |-> {}]
    /\ sends = EmptyBag
    /\ popupOpen = FALSE
    /\ popIsLocked = EmptyMap
    /\ popOpenRequestCount = [c \in CookieStoreIds |-> 0]
    /\ calls = {}
    /\ containerName = [c \in CookieStoreIds |-> Absent]
    /\ liveTabs = [t \in TabIds |-> Absent]
    /\ tabEvents = <<>>
    /\ requests = [r \in RequestIds |-> IdleRequest]
    /\ ret = NoRet
    /\ causal = NoEvents
    /\ webRtc \in WebRtcSettings
    /\ webRtcDisabledFlag \in BOOLEAN
    /\ guardCall = NoGuardCall

NextGuard ==
    \/ UserSteps
    \/ CallSteps
    \/ TabClosingSteps
    \/ \E setting \in WebRtcSettings : PeerConnectionOnChange(setting)

SpecGuard == InitGuard /\ [][NextGuard]_vars

-----------------------------------------------------------------------------
(* Every send of the background to a popup that is there or not. *)

NoticeSteps ==
    \/ \E t \in Tabs : DaemonOnTabUpdated(t)
    \/ \E t \in Tabs : DaemonOnTabActivated(t)
    \/ \E setting \in {FreshSetting, SuppressedSetting} : PeerConnectionOnChange(setting)

\* A container that is opened and never locked, its requests, and a popup
\* that is closed and opened again.
NextNotify ==
    \/ RequestSteps(DecideRequestIds, TrackedDetails, CookieStoreIds)
    \/ \E e \in BagToSet(sends) : BgCountChangedResume(e)
    \/ \E e \in BagToSet(sends) : PopupOnRequestCountChanged(e)
    \/ CallSteps
    \/ PopupOpens
    \/ PopupOpenTabInQuarantine
    \/ \E ev \in Pending(tabEvents) : DaemonOnTabCreated(ev)
    \/ PopupCloses
    \/ NoticeSteps

SpecNotify == InitFirefox /\ [][NextNotify]_vars

-----------------------------------------------------------------------------
(* The status store of the background: _setIsLocked and checkStatus called
   on a store in any state. *)

\* The entry of _cookieStoreIdToIsLocked as _setIsLocked reads it (line 685).
IsLockedEntry(locked, c) ==
    IF c \notin DOMAIN locked THEN "undefined"
    ELSE IF locked[c] THEN "true" ELSE "false"

\* What a call of _setIsLocked in the background did: the entry it found,
\* whether it ran _onNetworkClose on tabs of the container, whether it
\* threw, and whether the call before it was the same call.
SetIsLockedRet(c, status, previous, swept, threw) ==
    [entry |-> "_setIsLocked", cookieStoreId |-> c, status |-> status,
     previous |-> previous, swept |-> swept, threw |-> threw,
     again |-> /\ ret.entry = "_setIsLocked"
               /\ ret.cookieStoreId = c
               /\ ret.status = status]

\* QuaranTab._setIsLocked(c, status) in the background.  It throws when the
\* map promise is rejected, and after the map update when the sweep fails.
BgSetIsLocked(c, status, sweepOk) ==
    /\ LET swept == lockedOk /\ sweeps(isLocked, c, status) /\ TabsOf(c) # {}
       IN /\ isLocked' = IF lockedOk THEN setIsLockedMap(isLocked, c, status)
                         ELSE isLocked
          /\ ret' = SetIsLockedRet(c, status,
                                   IF lockedOk THEN IsLockedEntry(isLocked, c)
                                   ELSE "rejected",
                                   swept, ~lockedOk \/ (swept /\ ~sweepOk))
    /\ UNCHANGED <<lockedOk, browserInfo, listening, openRequestCount,
                   openRequestIds, closedRequestIds, tabIdToCookieStoreId,
                   cookieStoreIdToTabIds, sends>>
    /\ UNCHANGED <<popVars, hostVars>>
    /\ UNCHANGED causal
    /\ GuardIdle

\* QuaranTab.checkStatus(c) in the background
BgCheckStatus(c) ==
    /\ ret' = [entry |-> "checkStatus", cookieStoreId |-> c,
               status |-> StatusRead(c), threw |-> ~StatusOk(c)]
    /\ UNCHANGED <<bgVars, popVars, hostVars>>
    /\ UNCHANGED causal
    /\ GuardIdle

\* Every map over a subset of the containers.
LockMaps == UNION {[D -> BOOLEAN] : D \in SUBSET MoreCookieStoreIds}

InitStore ==
    /\ lockedOk \in BOOLEAN
    /\ browserInfo = [ok |-> TRUE, name |-> "Firefox", vendor |-> "Mozilla"]
    /\ listening = TRUE
    /\ isLocked \in LockMaps
    /\ openRequestCount \in [MoreCookieStoreIds -> 0..1]
    /\ openRequestIds = [c \in MoreCookieStoreIds |->
                            IF openRequestCount[c] = 0 THEN {} ELSE {1}]
    /\ closedRequestIds = [c \in MoreCookieStoreIds |-> {}]
    /\ liveTabs \in [TabIds -> DOMAIN isLocked \cup {Absent}]
    /\ tabIdToCookieStoreId =
           [t \in TabIds |-> IF liveTabs[t] \in DOMAIN isLocked
                             THEN liveTabs[t] ELSE Absent]
    /\ cookieStoreIdToTabIds =
           [c \in {k \in DOMAIN isLocked : \E t \in TabIds : liveTabs[t] = k} |->
               {t \in TabIds : liveTabs[t] = c}]
    /\ sends = EmptyBag
    /\ popupOpen = FALSE
    /\ popIsLocked = EmptyMap
    /\ popOpenRequestCount = [c \in MoreCookieStoreIds |-> 0]
    /\ calls = {}
    /\ containerName =
           [c \in MoreCookieStoreIds |->
               IF c \in DOMAIN isLocked
               THEN _getQuaranTabContainerName(isLocked[c]) ELSE Absent]
    /\ tabEvents = <<>>
    /\ requests = [r \in RequestIds |-> IdleRequest]
    /\ ret = NoRet
    /\ causal = NoEvents
    /\ webRtc = SuppressedSetting
    /\ webRtcDisabledFlag = TRUE
    /\ guardCall = NoGuardCall

NextStore ==
    \/ \E c \in Containers, status \in QuarantineStatus, sweepOk \in BOOLEAN :
           BgSetIsLocked(c, status, sweepOk)
    \/ \E c \in Containers \cup {Undefined} : BgCheckStatus(c)

SpecStore == InitStore /\ [][NextStore]_vars

-----------------------------------------------------------------------------
(* The start of the background in a browser with any containers, tabs and
   WebRTC setting. *)

\* Names of containers that are not ours: the user's, and two that differ
\* from ours by a trailing space.
OtherNames == {"Personal"} \cup {"QuaranTab" \o suffix : suffix \in NameSuffixes \ {OpenText, ClosedText}}

OurNames == {_getQuaranTabContainerName(b) : b \in BOOLEAN}

ContainerNames == OurNames \cup OtherNames

\* new Daemon -> new QuaranTab(Runner.BACKGROUND): the constructor assigns
\* _cookieStoreIdToIsLocked = _loadContainerState(), which removes our
\* containers without tabs and calls _startup or _shutdown; the promise is
\* rejected when disableWebRtc throws.  The other maps start empty.
BackgroundStarts ==
    /\ LET loaded == loadedMap(containerName, HasTabs)
           g == loadedGuardCall("background", loaded, webRtc, webRtcDisabledFlag)
       IN /\ lockedOk' = ~g.threw
          /\ listening' = (DOMAIN loaded # {})
          /\ isLocked' = loaded
          /\ containerName' = loadedNames(containerName, HasTabs)
          /\ GuardRuns(g)
          /\ ret' = [entry |-> "constructor", threw |-> g.threw]
    /\ openRequestCount' = [c \in Containers |-> 0]
    /\ openRequestIds' = [c \in Containers |-> {}]
    /\ closedRequestIds' = [c \in Containers |-> {}]
    /\ tabIdToCookieStoreId' = [t \in Tabs |-> Absent]
    /\ cookieStoreIdToTabIds' = [c \in {} |-> {}]
    /\ sends' = EmptyBag
    /\ UNCHANGED <<browserInfo, popVars, liveTabs, tabEvents, requests>>
    /\ UNCHANGED causal

InitRecovery ==
    /\ lockedOk = TRUE
    /\ browserInfo = [ok |-> TRUE, name |-> "Firefox", vendor |-> "Mozilla"]
    /\ listening = FALSE
    /\ isLocked = EmptyMap
    /\ openRequestCount = [c \in MoreCookieStoreIds |-> 0]
    /\ openRequestIds = [c \in MoreCookieStoreIds |-> {}]
    /\ closedRequestIds = [c \in MoreCookieStoreIds |-> {}]
    /\ tabIdToCookieStoreId = [t \in MoreTabIds |-> Absent]
    /\ cookieStoreIdToTabIds = [c \in {} |-> {}]
    /\ sends = EmptyBag
    /\ popupOpen = FALSE
    /\ popIsLocked = EmptyMap
    /\ popOpenRequestCount = [c \in MoreCookieStoreIds |-> 0]
    /\ calls = {}
    /\ containerName \in [MoreCookieStoreIds -> ContainerNames \cup {Absent}]
    /\ liveTabs \in [MoreTabIds -> MoreCookieStoreIds \cup {Absent}]
    /\ \A t \in MoreTabIds : liveTabs[t] # Absent => containerName[liveTabs[t]] # Absent
    /\ tabEvents = <<>>
    /\ requests = [r \in RequestIds |-> IdleRequest]
    /\ ret = NoRet
    /\ causal = NoEvents
    /\ webRtc \in WebRtcSettings
    /\ webRtcDisabledFlag \in BOOLEAN
    /\ guardCall = NoGuardCall

NextRecovery ==
    \/ BackgroundStarts
    \/ \E setting \in WebRtcSettings : PeerConnectionOnChange(setting)

SpecRecovery == InitRecovery /\ [][NextRecovery]_vars

-----------------------------------------------------------------------------
(* The lock after load: a tab re-opened in quarantine with the popup's
   onUpdated listener waiting for its completion. *)

UpdateStatuses == {"loading", "complete"}

\* onUpdatedListener, line 193: the update is the completion of the new tab
firesFor(listener, t, status) == status = "complete" /\ t = listener.tabId

\* The listeners of the open popup that the update of tab t fires.
Fired(t, status) ==
    {k \in calls : /\ IsLockListener(k)
                   /\ k.st = "armed"
                   /\ k.waiting
                   /\ firesFor(k, t, status)}

\* tabs.onUpdated for tab t with changeInfo.status, as the popup's
\* listeners see it (lines 190-203): a listener that fires removes itself
\* and starts its wait of a second.  (The background's listener of the same
\* event is Daemon.onTabUpdated.)
TabsOnUpdated(t, status) ==
    /\ liveTabs[t] # Absent
    /\ \A ev \in Pending(tabEvents) : ev.tabId # t
    /\ calls' = (calls \ Fired(t, status)) \cup
                    {[k EXCEPT !.st = "timer"] : k \in Fired(t, status)}
    /\ ret' = [entry |-> "tabs.onUpdated", tabId |-> t, status |-> status,
               fired |-> Cardinality(Fired(t, status))]
    /\ UNCHANGED <<bgVars, popupOpen, popIsLocked, popOpenRequestCount, hostVars>>
    /\ UNCHANGED causal
    /\ GuardIdle

\* onUpdatedListener, lines 197-201, after the wait: lockQuarantine(tab) up
\* to its send of SET_QUARANTINE_STATUS.
ListenerLocks(listener) ==
    /\ popupOpen
    /\ listener \in calls
    /\ IsLockListener(listener)
    /\ listener.st = "timer"
    /\ listener.waiting
    /\ calls' = (calls \ {listener}) \cup
           {SetIsLockedCall("lockQuarantine", listener.cookieStoreId,
                            lockStatus(popOpenRequestCount, listener.cookieStoreId))}
    /\ ret' = [entry |-> "lockAfterLoad", tabId |-> listener.tabId,
               cookieStoreId |-> listener.cookieStoreId]
    /\ UNCHANGED <<bgVars, popupOpen, popIsLocked, popOpenRequestCount, hostVars>>
    /\ UNCHANGED causal
    /\ GuardIdle

\* A fresh browser with two container ids and two tab ids.
InitAutoLock ==
    Recovered([c \in MoreCookieStoreIds |-> Absent], [t \in MoreTabIds |-> Absent], FALSE)

NextAutoLock ==
    \/ PopupOpens
    \/ PopupCloses
    \/ PopupReopenTabInQuarantine
    \/ CallSteps
    \/ \E ev \in Pending(tabEvents) : DaemonOnTabCreated(ev)
    \/ \E t \in Tabs, c \in Containers : HostOpensTab(t, c)
    \/ \E t \in Tabs, status \in UpdateStatuses : TabsOnUpdated(t, status)
    \/ \E listener \in calls : ListenerLocks(listener)

SpecAutoLock == InitAutoLock /\ [][NextAutoLock]_vars

-----------------------------------------------------------------------------
(* The tracker under reordered events.  The host produces the events of the
   requests of one OPEN container in causal order (a request opens, then
   completes, fails or is redirected, and after a redirect opens again; a
   request the proxy hook blocked fails); the listeners of the Daemon see
   them in any order. *)

TheCookieStoreId == CHOOSE c \in CookieStoreIds : TRUE
TheTabId == CHOOSE t \in TabIds : TRUE

\* The state after the popup opened a tab in quarantine and was closed.
InitReorder ==
    /\ lockedOk = TRUE
    /\ browserInfo = [ok |-> TRUE, name |-> "Firefox", vendor |-> "Mozilla"]
    /\ listening = TRUE
    /\ isLocked = MapSet(EmptyMap, TheCookieStoreId, FALSE)
    /\ openRequestCount = [c \in CookieStoreIds |-> 0]
    /\ openRequestIds = [c \in CookieStoreIds |-> {}]
    /\ closedRequestIds = [c \in CookieStoreIds |-> {}]
    /\ tabIdToCookieStoreId =
           [t \in TabIds |-> IF t = TheTabId THEN TheCookieStoreId ELSE Absent]
    /\ cookieStoreIdToTabIds = [c \in {TheCookieStoreId} |-> {TheTabId}]
    /\ sends = EmptyBag
    /\ popupOpen = FALSE
    /\ popIsLocked = EmptyMap
    /\ popOpenRequestCount = [c \in CookieStoreIds |-> 0]
    /\ calls = {}
    /\ containerName =
           [c \in CookieStoreIds |->
               IF c = TheCookieStoreId THEN _getQuaranTabContainerName(FALSE)
               ELSE Absent]
    /\ liveTabs = [t \in TabIds |-> IF t = TheTabId THEN TheCookieStoreId ELSE Absent]
    /\ tabEvents = <<>>
    /\ requests = [r \in RequestIds |-> IdleRequest]
    /\ ret = NoRet
    /\ causal = NoEvents
    /\ webRtc = SettingAfter(FreshSetting, "false")
    /\ webRtcDisabledFlag = TRUE
    /\ guardCall = NoGuardCall

\* The events the host can produce next for request r, and where each
\* leaves the request.
CausalNext(r) ==
    CASE causal.life[r] \in {"new", "redirected"} -> {"open", "block"}
      [] causal.life[r] = "open" -> {"completed", "error", "redirect"}
      [] causal.life[r] = "blocked" -> {"error"}
      [] OTHER -> {}

LifeAfter(requestState) ==
    CASE requestState = "open" -> "open"
      [] requestState = "block" -> "blocked"
      [] requestState = "redirect" -> "redirected"
      [] OTHER -> "done"

\* The host produces the event requestState of request r.
HostProducesEvent(r, requestState) ==
    /\ causal.produced < MaxEvents
    /\ requestState \in CausalNext(r)
    /\ LET t == trackSets(causal.open, causal.closed, r, requestState)
       IN causal' = [causal EXCEPT
              !.open = t.open,
              !.closed = t.closed,
              !.life[r] = LifeAfter(requestState),
              !.produced = @ + 1,
              !.pending = @ (+) SetToBag({[requestId |-> r,
                                           requestState |-> requestState]})]
    /\ ret' = NoRet
    /\ UNCHANGED <<bgVars, popVars, hostVars>>
    /\ GuardIdle

\* What the call of trackRequestStateChanged for the event e of container c
\* did: the arguments it was called with, and whether its catch clause
\* logged an error.
SeenRet(c, e) ==
    [entry |-> "trackRequestStateChanged", requestId |-> e.requestId,
     requestState |-> e.requestState, err |-> trackThrows(c),
     escaped |-> FALSE]

\* A listener of the Daemon is called with a pending event, not
\* necessarily the oldest: Daemon.trackRequestStateChanged.
DaemonSeesEvent(e) ==
    /\ BagIn(e, causal.pending)
    /\ TrackRequestStateChanged(TheCookieStoreId, e.requestId, e.requestState)
    /\ causal' = [causal EXCEPT !.pending = @ (-) SetToBag({e})]
    /\ ret' = SeenRet(TheCookieStoreId, e)
    /\ UNCHANGED <<lockedOk, browserInfo, listening, isLocked, openRequestCount,
                   tabIdToCookieStoreId, cookieStoreIdToTabIds>>
    /\ UNCHANGED <<popVars, hostVars>>
    /\ GuardIdle

NextReorder ==
    \/ \E r \in RequestIds, s \in RequestStates : HostProducesEvent(r, s)
    \/ \E e \in BagToSet(causal.pending) : DaemonSeesEvent(e)
    \/ \E e \in BagToSet(sends) : BgCountChangedResume(e)

SpecReorder == InitReorder /\ [][NextReorder]_vars

\* Every event the host produced has been seen by the Daemon.
AllEventsSeen == causal.produced > 0 /\ causal.pending = EmptyBag

\* C4: once the Daemon has seen every event, in whatever order, the number
\* of open requests it holds equals the one of a tracker that saw the
\* events in causal order.
C4_ReorderingInvariance ==
    AllEventsSeen =>
        Cardinality(openRequestIds[TheCookieStoreId]) = Cardinality(causal.open)

-----------------------------------------------------------------------------
(* The status of a container over time *)

\* C2: a request of a managed container that both hooks allowed and that
\* has not completed, failed or been redirected keeps the container from
\* being CLOSED.
C2_ClosedHasNothingInFlight ==
    \A r \in RequestIds :
        (requests[r].phase = "inflight" /\ requests[r].cookieStoreId \in CookieStoreIds)
            => bgStatus(requests[r].cookieStoreId) # CLOSED

\* The changes of status the claim C3 admits.
StatusOrder == {<<NONE, OPEN>>, <<OPEN, CLOSING>>, <<CLOSING, CLOSED>>, <<OPEN, CLOSED>>}

\* C3: the status checkStatus reports in the background only moves along
\* NONE -> OPEN -> CLOSING -> CLOSED or NONE -> OPEN -> CLOSED.
C3_StatusFollowsOrder ==
    [][\A c \in CookieStoreIds :
          LET before == checkStatus(isLocked, openRequestCount, c)
              after == checkStatus(isLocked', openRequestCount', c)
          IN before # after => <<before, after>> \in StatusOrder]_vars

\* C6: the status of a container changes from CLOSING to CLOSED only when
\* the container is locked and its set of open requests is empty.
C6_ClosedOnlyWhenOpenSetEmpty ==
    [][\A c \in CookieStoreIds :
          (/\ checkStatus(isLocked, openRequestCount, c) = CLOSING
           /\ checkStatus(isLocked', openRequestCount', c) = CLOSED)
              => /\ openRequestIds'[c] = {}
                 /\ c \in DOMAIN isLocked' /\ isLocked'[c] = TRUE]_vars

\* Nothing is in progress: no request between its first hook and its last
\* event, no message in flight, no tab event to dispatch.
Quiescent ==
    /\ sends = EmptyBag
    /\ calls = {}
    /\ tabEvents = <<>>
    /\ \A r \in RequestIds : requests[r].phase \in {"idle", "done"}

\* C7: once every request of a locked container has had its completed,
\* error or redirect event and every notification has been delivered, the
\* container is CLOSED.
C7_LockedSettlesClosed ==
    \A c \in CookieStoreIds :
        (Quiescent /\ c \in DOMAIN isLocked /\ isLocked[c] = TRUE
                   /\ openRequestIds[c] = {})
            => bgStatus(c) = CLOSED

\* C5: once nothing is in progress, the background and the open popup
\* report the same status for every container that has a tab.
C5_ViewsConverge ==
    (Quiescent /\ popupOpen) =>
        \A c \in CookieStoreIds : TabsOf(c) # {} => bgStatus(c) = popStatus(c)

-----------------------------------------------------------------------------
(* Decisions of the two hooks *)

Hooks == {"webRequestOnBeforeRequestBlocking", "onProxyRequest"}

\* The last step ran a decision hook.
IsDecision == ret.entry \in Hooks

\* The last step ran a decision hook on a container it found locked.
LockedDecision == IsDecision /\ ret.status \in {CLOSING, CLOSED}

\* C1: for a container that is CLOSING or CLOSED at the time of the
\* decision, each hook returns BLOCK and records the request as blocked
\* (a call of trackRequestStateChanged with 'block'), whatever its kind.
C1_LockedAlwaysBlocksAndRecords ==
    LockedDecision => ret.response = BLOCK /\ ret.track = "block"

\* C8: an error raised in the CLOSING/CLOSED branch of a decision hook
\* never makes the hook return ALLOW.
C8_SecurityErrorNeverAllows ==
    (LockedDecision /\ ret.err) => ret.response # ALLOW

\* C9: an error inside an entry point never leaves it: a hook that met an
\* error returns ALLOW, having made no call of trackRequestStateChanged,
\* and its step leaves the two tracker sets and the pending count
\* notifications as they were; trackRequestStateChanged, onTabCreated and
\* onTabRemoved catch theirs.
C9_ErrorsAreCaught ==
    [][(ret'.entry # "none" /\ ret'.err)
          => /\ ~ret'.escaped
             /\ ret'.entry \in Hooks
                  => /\ ret'.response = ALLOW
                     /\ ret'.track = "none"
                     /\ UNCHANGED <<openRequestIds, closedRequestIds, sends>>]_vars

\* A hook met an error (the map of containers failed to load, or the
\* browser info did) and allowed the request.
C9_Witness == IsDecision /\ ret.err /\ ret.response = ALLOW /\ ~ret.escaped

\* The decision table of the claim C10 for a container that is not locked.
ReferenceDecision(status, type, info) ==
    IF status = OPEN /\ type = "websocket"
       /\ ~(info.name = "Firefox" /\ info.vendor = "Mozilla")
    THEN BLOCK
    ELSE ALLOW

\* C10: a decision made without an error for a container that is NONE
\* (the undefined container id included) or OPEN is the one of the
\* reference table: ALLOW, except BLOCK for a websocket of an OPEN
\* container on a host that is not Mozilla Firefox.
C10_UnlockedDecisionTable ==
    (IsDecision /\ ~ret.err /\ ret.status \in {NONE, OPEN})
        => ret.response = ReferenceDecision(ret.status, ret.details.type, browserInfo)

\* A websocket of an OPEN container was blocked by the proxy hook.
C10_Witness ==
    /\ ret.entry = "onProxyRequest"
    /\ ~ret.err
    /\ ret.status = OPEN
    /\ ret.details.type = "websocket"
    /\ ret.response = BLOCK

\* The host lets the request out (ALLOW), or not (BLOCK, or REDIRECT to the
\* page that says the network is cut off).
Denies(response) == response # ALLOW

\* The answers any call of either hook can give for a container in the
\* given status, a request of the given type and a given browser: the url,
\* and what fails inside the call, are left open.
OtherAnswers(status, type, info) ==
    {webRequestOnBeforeRequestBlocking(TRUE, status, d, info, e).response :
         d \in {x \in RequestDetails : x.type = type}, e \in BOOLEAN}
    \cup
    {onProxyRequest(TRUE, status, d, info).response :
         d \in {x \in RequestDetails : x.type = type}}

\* C11: a decision reached on a status is the same, between letting the
\* request out and not, as that of any other call of a hook with the same
\* status, the same type of request and the same browser.
C11_DecisionDeterminism ==
    (IsDecision /\ ret.status \in QuarantineStatus)
        => \A other \in OtherAnswers(ret.status, ret.details.type, browserInfo) :
               Denies(other) = Denies(ret.response)

-----------------------------------------------------------------------------
(* Tabs, containers and the teardown *)

\* The step runs onTabClosed for tab t, which the background has mapped to
\* container c.
ClosesMappedTab(t, c) ==
    /\ tabIdToCookieStoreId[t] = c
    /\ tabIdToCookieStoreId'[t] = Absent

\* The tabs the background has mapped to container c.
MappedTabs(c) ==
    IF c \in DOMAIN cookieStoreIdToTabIds THEN cookieStoreIdToTabIds[c] ELSE {}

\* The step removes container c from the host.
Removes(c) == containerName[c] # Absent /\ containerName'[c] = Absent

\* C12: when the background has more than one tab mapped to a container,
\* the removal of one of them leaves the container in place, the listeners
\* registered and the WebRTC setting and its flag as they were; the
\* removal handler deletes a container only for the last tab mapped to it.
C12_OneOfTwoTabsRemoved ==
    [][\A t \in Tabs, c \in Containers :
          ClosesMappedTab(t, c) =>
              /\ MappedTabs(c) \ {t} # {}
                    => /\ containerName'[c] = containerName[c]
                       /\ listening' = listening
                       /\ guardCall'.op = "none"
                       /\ UNCHANGED <<webRtc, webRtcDisabledFlag>>
              /\ \A d \in Containers :
                    Removes(d) => d = c /\ MappedTabs(c) \ {t} = {}]_vars

\* The removal handler ran for a tab whose container had another mapped tab.
C12_Witness ==
    /\ ret.entry = "onTabRemoved"
    /\ ret.tracked
    /\ ret.rest >= 1
    /\ ~ret.removed

\* C13: the removal handler deletes a container only when the host has no
\* tab of that container left.
C13_TeardownOnlyWithoutLiveTabs ==
    [][\A t \in Tabs, c \in Containers :
          (ClosesMappedTab(t, c) /\ Removes(c)) => TabsOf(c) = {}]_vars

\* The step calls _shutdown in the background.
ShutsDown == guardCall'.op = "resetWebRtc" /\ guardCall'.runner = "background"

\* C14: the removal handler that deletes a container calls _shutdown if
\* and only if the host has no other container of ours left.
C14_ShutdownIffLastContainer ==
    [][\A t \in Tabs, c \in Containers :
          (ClosesMappedTab(t, c) /\ Removes(c))
              => (ShutsDown <=> \A d \in Containers \ {c} : containerName'[d] = Absent)]_vars

\* C15: when no tab event and no call is pending, every container of ours
\* that the host has still has a tab.
C15_ContainerRemovedWithLastTab ==
    (tabEvents = <<>> /\ calls = {})
        => \A c \in Containers : containerName[c] # Absent => TabsOf(c) # {}

-----------------------------------------------------------------------------
(* The global guard and the startup handshake *)

\* The setting cannot be changed by this extension.
Uncontrollable(setting) ==
    setting.levelOfControl \in {"not_controllable", "controlled_by_other_extensions"}

\* C16: a call of disableWebRtc that finds WebRTC enabled and the setting
\* not controllable, or controlled by other extensions, throws; it calls
\* neither peerConnectionEnabled.set nor storage.local.set nor
\* onWebRtcEnabledChanged, and leaves the setting and the flag as they were.
C16_DisableFailsWhenNotControllable ==
    [][(guardCall'.op = "disableWebRtc" /\ webRtc.value /\ Uncontrollable(webRtc))
          => /\ guardCall'.threw
             /\ guardCall'.set = "none"
             /\ guardCall'.store = "none"
             /\ guardCall'.notice = "none"
             /\ UNCHANGED <<webRtc, webRtcDisabledFlag>>]_vars

\* disableWebRtc threw in the background.
C16_Witness ==
    /\ guardCall.op = "disableWebRtc"
    /\ guardCall.threw
    /\ webRtc.value
    /\ Uncontrollable(webRtc)

\* C18: a call of disableWebRtc that finds WebRTC disabled does nothing (no
\* set, no flag, no notification, no error); and a call of resetWebRtc on a
\* setting this extension does not control, without the flag, leaves the
\* setting as it is.
C18_AlreadyDisabledIsLeftAlone ==
    [][/\ (guardCall'.op = "disableWebRtc" /\ ~webRtc.value)
             => /\ ~guardCall'.threw
                /\ guardCall'.set = "none"
                /\ guardCall'.store = "none"
                /\ guardCall'.notice = "none"
                /\ UNCHANGED <<webRtc, webRtcDisabledFlag>>
       /\ (/\ guardCall'.op = "resetWebRtc"
           /\ ~webRtcDisabledFlag
           /\ webRtc.levelOfControl # "controlled_by_this_extension")
             => UNCHANGED <<webRtc, webRtcDisabledFlag>>]_vars

\* disableWebRtc ran in the background on a setting that was disabled and
\* not by this extension, and did nothing.
C18_Witness ==
    /\ guardCall.op = "disableWebRtc"
    /\ guardCall.runner = "background"
    /\ ~guardCall.threw
    /\ guardCall.set = "none"
    /\ ~webRtc.value
    /\ ~webRtcDisabledFlag
    /\ webRtc.levelOfControl # "controlled_by_this_extension"

\* resetWebRtc leaves things as they are.
ResetSkips ==
    /\ ~webRtcDisabledFlag
    /\ webRtc.levelOfControl # "controlled_by_this_extension"

\* C19: a call of resetWebRtc does nothing exactly when the flag is absent
\* and the host does not report the setting as controlled by this
\* extension; otherwise it sets WebRTC to enabled, removes the flag and
\* notifies that WebRTC is enabled.
C19_ResetSkipsExactlyWhenNotOurs ==
    [][guardCall'.op = "resetWebRtc"
          => IF ResetSkips
             THEN /\ guardCall'.set = "none"
                  /\ guardCall'.store = "none"
                  /\ guardCall'.notice = "none"
                  /\ UNCHANGED <<webRtc, webRtcDisabledFlag>>
             ELSE /\ guardCall'.set = "true"
                  /\ ~Uncontrollable(webRtc) => webRtc'.value
                  /\ webRtcDisabledFlag' = FALSE
                  /\ guardCall'.notice = "true"]_vars

\* resetWebRtc re-enabled WebRTC on the strength of the levelOfControl.
C19_Witness ==
    /\ guardCall.op = "resetWebRtc"
    /\ guardCall.set = "true"
    /\ webRtc.value
    /\ ~webRtcDisabledFlag

\* A call of the startup handshake.
IsHandshake(call) == call.status = AboutToStart

\* C17: a container is created only in a step that resumes an
\* acknowledged handshake, and the acknowledgement is given with the
\* listeners registered and WebRTC disabled; the background gets the status
\* entry of a container that exists, and a tab is opened in a container
\* with a status entry; a failed handshake ends with no container created,
\* no status entry in either process and no further message.
C17_HandshakeBeforeContainer ==
    [][/\ \A c \in Containers :
             (containerName[c] = Absent /\ containerName'[c] # Absent)
                 => \E call \in calls : IsHandshake(call) /\ call.st = "ok"
       /\ \A call \in calls' :
             (IsHandshake(call) /\ call.st = "ok" /\ call \notin calls)
                 => listening' /\ ~webRtc'.value
       /\ \A c \in Containers :
             (c \notin DOMAIN isLocked /\ c \in DOMAIN isLocked')
                 => containerName[c] # Absent
       /\ \A t \in Tabs :
             (liveTabs[t] = Absent /\ liveTabs'[t] # Absent)
                 => liveTabs'[t] \in DOMAIN isLocked
       /\ \A call \in calls :
             (IsHandshake(call) /\ call.st = "failed" /\ call \notin calls')
                 => /\ UNCHANGED <<containerName, isLocked, popIsLocked>>
                    /\ calls' = calls \ {call}]_vars

\* The handshake failed: disableWebRtc threw in the background and the
\* popup has the rejection to handle.
C17_Witness ==
    /\ popupOpen
    /\ \E call \in calls : IsHandshake(call) /\ call.st = "failed"
    /\ \A c \in Containers : containerName[c] = Absent

-----------------------------------------------------------------------------
(* Sends of the background to the popup *)

NoticeEntries == {"onTabUpdated", "onTabActivated", "peerConnectionOnChange"}

\* onRequestCountChanged is resumed in this step after the send e.
Resumed(e) == CopiesIn(e, sends') < CopiesIn(e, sends)

\* C20: a send of the background that fails because there is no popup is
\* swallowed: onRequestCountChanged resumed after a failed send of
\* ON_REQUEST_COUNT_CHANGED caches the count as after an answered one, and
\* a listener that sent ON_TAB_UPDATED, ON_TAB_ACTIVATED or
\* ON_WEBRTC_ENABLED_CHANGED to no popup ends with no error and no
\* rejection left unhandled, and changes nothing of the background.
C20_FailedSendIsSwallowed ==
    [][/\ \A e \in BagToSet(sends) :
             (e.st = "failed" /\ Resumed(e))
                 => openRequestCount' =
                        [openRequestCount EXCEPT
                            ![e.cookieStoreId] = cacheCount(e.count)]
       /\ (ret'.entry \in NoticeEntries /\ ~popupOpen /\ ~ret'.threw)
             => /\ ret'.sent
                /\ ~ret'.delivered
                /\ ~ret'.escaped
                /\ UNCHANGED bgVars]_vars

\* A notice was sent to no popup, while onRequestCountChanged has a failed
\* send of its own to resume after.
C20_Witness ==
    /\ ~popupOpen
    /\ ret.entry \in NoticeEntries
    /\ ret.sent
    /\ ~ret.delivered
    /\ \E e \in BagToSet(sends) : e.st = "failed" /\ e.count > 0

-----------------------------------------------------------------------------
(* The status store *)

\* The step is a call of _setIsLocked(c, status) in the background.
SetsStatus(c, status) ==
    /\ ret'.entry = "_setIsLocked"
    /\ ret'.cookieStoreId = c
    /\ ret'.status = status

\* C21: a call of _setIsLocked(c, CLOSED) that follows a call of
\* _setIsLocked(c, CLOSED) leaves the map, the status of every container
\* and the cached counts as the first call left them, and does not run the
\* termination sweep.
C21_ClosedTwiceIsClosedOnce ==
    [][\A c \in Containers :
          (/\ ret.entry = "_setIsLocked"
           /\ ret.cookieStoreId = c
           /\ ret.status = CLOSED
           /\ SetsStatus(c, CLOSED))
              => /\ isLocked' = isLocked
                 /\ \A d \in Containers : bgStatus(d)' = bgStatus(d)
                 /\ openRequestCount' = openRequestCount
                 /\ ~ret'.swept]_vars

\* The second of two calls _setIsLocked(c, CLOSED) has run, on a container
\* that has a tab to sweep and that the first call found unlocked.
C21_Witness ==
    /\ ret.entry = "_setIsLocked"
    /\ ret.status = CLOSED
    /\ ret.again
    /\ ret.previous = "true"
    /\ ~ret.swept
    /\ ~ret.threw
    /\ TabsOf(ret.cookieStoreId) # {}

\* C22: _setIsLocked(c, NONE) deletes the entry of c; checkStatus returns
\* NONE for undefined and for every id with no entry; and a call of
\* _setIsLocked does nothing but update the map (it runs no sweep on the
\* tabs of the container).
C22_StoreHasNoSideEffects ==
    [][/\ \A c \in Containers :
             (SetsStatus(c, NONE) /\ ~ret'.threw) => c \notin DOMAIN isLocked'
       /\ (/\ ret'.entry = "checkStatus"
           /\ ret'.cookieStoreId \notin DOMAIN isLocked)
             => (~ret'.threw => ret'.status = NONE)
       /\ ret'.entry = "_setIsLocked" => ~ret'.swept]_vars

-----------------------------------------------------------------------------
(* Tracked tabs *)

\* The step runs onTabCreated for the oldest pending event, ev.
HandlesCreated(ev) ==
    /\ IsNextEvent(ev)
    /\ ev.kind = "created"
    /\ tabEvents' = Tail(tabEvents)

\* C23: a tab enters _tabIdToCookieStoreId only in a run of onTabCreated
\* for that tab, with the container of the tab, and only when that
\* container has an entry in _cookieStoreIdToIsLocked; every tracked tab
\* maps to a container with an entry; and onTabCreated for a tab with no
\* cookieStoreId, or of a container with no entry, leaves
\* _tabIdToCookieStoreId and _cookieStoreIdToTabIds as they were.
C23_OnlyManagedTabsTracked ==
    [][/\ \A t \in Tabs :
             (/\ tabIdToCookieStoreId'[t] # Absent
              /\ tabIdToCookieStoreId'[t] # tabIdToCookieStoreId[t])
                 => /\ tabIdToCookieStoreId'[t] \in DOMAIN isLocked
                    /\ HandlesCreated(TabEvent("created", t, tabIdToCookieStoreId'[t]))
       /\ \A t \in Tabs :
             tabIdToCookieStoreId'[t] # Absent
                 => tabIdToCookieStoreId'[t] \in DOMAIN isLocked'
       /\ \A ev \in Pending(tabEvents) :
             (/\ HandlesCreated(ev)
              /\ (ev.cookieStoreId = Undefined \/ ev.cookieStoreId \notin DOMAIN isLocked))
                 => UNCHANGED <<tabIdToCookieStoreId, cookieStoreIdToTabIds>>]_vars

\* onTabCreated has run for a tab of another container and for a tab of
\* ours: the first is not tracked, the second is.
C23_Witness ==
    /\ tabEvents = <<>>
    /\ \E t \in Tabs :
          /\ liveTabs[t] \in ForeignCookieStoreIds
          /\ tabIdToCookieStoreId[t] = Absent
    /\ \E t \in Tabs :
          /\ liveTabs[t] \in DOMAIN isLocked
          /\ tabIdToCookieStoreId[t] = liveTabs[t]

-----------------------------------------------------------------------------
(* Recovery at startup *)

\* C24: the start of the background recovers a container named 'QuaranTab'
\* that has a tab with status OPEN and one named 'QuaranTab - Locked' with
\* status CLOSED; removes, and does not track, a container of either name
\* without a tab; neither tracks nor removes a container of another name;
\* and calls disableWebRtc when it recovered a container, resetWebRtc when
\* it recovered none.
C24_RecoveryByName ==
    [][ret'.entry = "constructor"
          => /\ \A c \in Containers :
                   LET name == containerName[c]
                   IN /\ (name = _getQuaranTabContainerName(FALSE) /\ TabsOf(c) # {})
                            => StatusRead(c)' = OPEN
                      /\ (name = _getQuaranTabContainerName(TRUE) /\ TabsOf(c) # {})
                            => StatusRead(c)' = CLOSED
                      /\ (name \in OurNames /\ TabsOf(c) = {})
                            => containerName'[c] = Absent /\ c \notin DOMAIN isLocked'
                      /\ name \in OtherNames
                            => containerName'[c] = name /\ c \notin DOMAIN isLocked'
             /\ guardCall'.op = IF \E c \in Containers :
                                      /\ containerName[c] \in OurNames
                                      /\ TabsOf(c) # {}
                                THEN "disableWebRtc" ELSE "resetWebRtc"]_vars

-----------------------------------------------------------------------------
(* A container torn down *)

\* C25: when onTabClosed has removed a container, checkStatus returns NONE
\* for it and it has no open set, no closed set and no cached count; and
\* while the container does not exist no request event changes its sets or
\* its count.
C25_TornDownContextIsDropped ==
    [][\A c \in Containers :
          /\ (ret'.entry = "onTabRemoved" /\ ret'.removed /\ Removes(c))
                => /\ bgStatus(c)' = NONE
                   /\ openRequestIds'[c] = {}
                   /\ closedRequestIds'[c] = {}
                   /\ openRequestCount'[c] = 0
          /\ containerName[c] = Absent
                => /\ openRequestIds'[c] = openRequestIds[c]
                   /\ closedRequestIds'[c] = closedRequestIds[c]
                   /\ openRequestCount'[c] = openRequestCount[c]]_vars

-----------------------------------------------------------------------------
(* The lock after load *)

\* The step reports the completion of tab t.
Completes(t) ==
    /\ ret'.entry = "tabs.onUpdated"
    /\ ret'.tabId = t
    /\ ret'.status = "complete"

\* C26: for every tab opened with the lock after load and not yet
\* completed, the step that reports the tab complete removes the listener
\* and starts the lock of the container, which lockQuarantine then asks
\* for; a listener is fired by nothing but the completion of its own tab,
\* and starts one lock.
C26_LockAfterLoad ==
    [][\A k \in calls :
          (IsLockListener(k) /\ k.st = "armed")
              => /\ Completes(k.tabId)
                    => /\ k \notin calls'
                       /\ \E j \in calls' : /\ IsLockListener(j)
                                            /\ j.tabId = k.tabId
                                            /\ j.st = "timer"
                                            /\ j.waiting
                 /\ (\A j \in calls' : IsLockListener(j) /\ j.tabId = k.tabId
                                          => j.st # "armed")
                    => Completes(k.tabId)]_vars

-----------------------------------------------------------------------------
(* Container names *)

\* C27: both names _getQuaranTabContainerName generates start with
\* 'QuaranTab' and are recognised, the open one as OPEN and the locked one
\* as CLOSED; every other name of a container is NONE to
\* _getStatusFromContainerName; and the start of the background reads the
\* names that way: it takes the lock of a container from its name and
\* tracks no container of another name.
C27_NameRoundTrip ==
    [][ret'.entry = "constructor"
          => /\ \A b \in BOOLEAN :
                   /\ StartsWithQuaranTab(_getQuaranTabContainerName(b))
                   /\ _getStatusFromContainerName(_getQuaranTabContainerName(b))
                          = IF b THEN CLOSED ELSE OPEN
             /\ \A c \in Containers :
                   /\ (containerName[c] # Absent /\ containerName[c] \notin OurNames)
                         => /\ _getStatusFromContainerName(containerName[c]) = NONE
                            /\ c \notin DOMAIN isLocked'
                   /\ c \in DOMAIN isLocked'
                         => isLocked'[c] = (containerName[c] = _getQuaranTabContainerName(TRUE))]_vars

\* The background has started in a browser with a locked container of ours
\* and a container whose name only starts like ours.
C27_Witness ==
    /\ ret.entry = "constructor"
    /\ lockedOk
    /\ \E c \in Containers :
          /\ containerName[c] = _getQuaranTabContainerName(TRUE)
          /\ c \in DOMAIN isLocked
          /\ isLocked[c]
    /\ \E c \in Containers :
          /\ containerName[c] \in OtherNames
          /\ StartsWithQuaranTab(containerName[c])

-----------------------------------------------------------------------------
(* The two sets of the tracker *)

\* The two-set policy as the specification words it: an open event for an
\* id of the closed set removes it from that set and stops, any other open
\* event inserts the id into the open set; an event that is not open, for
\* an id that is not in the open set, inserts it into the closed set and
\* stops, and otherwise removes the id from the open set.
referenceTrackSets(open, closed, requestId, requestState) ==
    IF requestState = "open"
    THEN IF requestId \in closed
         THEN [open |-> open, closed |-> closed \ {requestId}]
         ELSE [open |-> open \cup {requestId}, closed |-> closed]
    ELSE IF requestId \notin open
         THEN [open |-> open, closed |-> closed \cup {requestId}]
         ELSE [open |-> open \ {requestId}, closed |-> closed]

\* The step is the Daemon's call of trackRequestStateChanged for the
\* pending event e.
Sees(e) ==
    /\ BagIn(e, causal.pending)
    /\ causal'.pending = causal.pending (-) SetToBag({e})

\* C28: whatever the two sets of the container hold and whatever event the
\* Daemon sees, trackRequestStateChanged leaves the sets the reference
\* policy leaves, an event that is not open for an id of the closed set
\* included.
C28_TracksAsReference ==
    [][\A e \in BagToSet(causal.pending) :
          Sees(e) =>
              LET ref == referenceTrackSets(openRequestIds[TheCookieStoreId],
                                            closedRequestIds[TheCookieStoreId],
                                            e.requestId, e.requestState)
              IN /\ openRequestIds'[TheCookieStoreId] = ref.open
                 /\ closedRequestIds'[TheCookieStoreId] = ref.closed]_vars

\* C29: in every state, whatever events the Daemon has seen and in whatever
\* order, no request id is in both the open set and the closed set of a
\* container, and no call of trackRequestStateChanged that could come next
\* puts one in both.
C29_SetsDisjoint ==
    \A c \in DOMAIN openRequestIds :
        /\ openRequestIds[c] \cap closedRequestIds[c] = {}
        /\ \A r \in RequestIds, requestState \in RequestStates :
               LET t == trackSets(openRequestIds[c], closedRequestIds[c],
                                  r, requestState)
               IN t.open \cap t.closed = {}

\* The Daemon holds an open request and the id of another one, whose end
\* it saw while its open event is still to come.
C29_Witness ==
    \E r1, r2 \in RequestIds :
        /\ r1 # r2
        /\ r1 \in openRequestIds[TheCookieStoreId]
        /\ r2 \in closedRequestIds[TheCookieStoreId]
        /\ BagIn([requestId |-> r2, requestState |-> "open"], causal.pending)

\* The step is the call trackRequestStateChanged(TheCookieStoreId, r, type,
\* requestState).
Tracks(r, requestState) ==
    /\ ret'.entry = "trackRequestStateChanged"
    /\ ret'.requestId = r
    /\ ret'.requestState = requestState

\* C30: when the completed, error, redirect or block event of a request the
\* tracker holds in neither set is seen first, the call puts the id in the
\* closed set and leaves the open set and the count alone; the open event
\* of that request, seen while the id is in the closed set, takes the id
\* out, so that it is in neither set, and the open set and the count are
\* what they were before the two calls: neither call notifies a count.
C30_CloseBeforeOpenCancels ==
    [][\A r \in RequestIds, requestState \in RequestStates :
          LET open == openRequestIds[TheCookieStoreId]
              closed == closedRequestIds[TheCookieStoreId]
              open2 == openRequestIds'[TheCookieStoreId]
              closed2 == closedRequestIds'[TheCookieStoreId]
          IN /\ (/\ Tracks(r, requestState)
                 /\ requestState # "open"
                 /\ r \notin open \cup closed)
                   => /\ closed2 = closed \cup {r}
                      /\ open2 = open
                      /\ sends' = sends
                      /\ openRequestCount' = openRequestCount
             /\ (Tracks(r, "open") /\ r \in closed)
                   => /\ r \notin open2 \cup closed2
                      /\ closed2 = closed \ {r}
                      /\ open2 = open
                      /\ Cardinality(open2) = Cardinality(open)
                      /\ sends' = sends
                      /\ openRequestCount' = openRequestCount]_vars

\* The Daemon has just seen the open event of a request whose end it had
\* seen before: the request is in neither set, while another one is open.
C30_Witness ==
    /\ ret.entry = "trackRequestStateChanged"
    /\ ret.requestState = "open"
    /\ ret.requestId \notin openRequestIds[TheCookieStoreId]
    /\ ret.requestId \notin closedRequestIds[TheCookieStoreId]
    /\ openRequestIds[TheCookieStoreId] # {}

-----------------------------------------------------------------------------
(* The count notification *)

\* The step calls onRequestCountChanged(c, count) once: one
\* ON_REQUEST_COUNT_CHANGED message with that count is sent to the popup.
NotifiesOnce(c, count) ==
    \E st \in {"sent", "failed"} :
        sends' = sends (+) SetToBag({[cookieStoreId |-> c, count |-> count,
                                      st |-> st]})

\* C31: a step that changes the open set of a container calls
\* onRequestCountChanged once, with the size the set has after the step,
\* and sends that count to the popup once, 0 when the step empties the set;
\* a step that changes the closed set leaves the open set alone and sends
\* nothing.
C31_NotifiesResultingCountOnce ==
    [][\A c \in DOMAIN openRequestIds :
          /\ openRequestIds'[c] # openRequestIds[c]
                => /\ NotifiesOnce(c, Cardinality(openRequestIds'[c]))
                   /\ closedRequestIds' = closedRequestIds
          /\ (openRequestIds[c] # {} /\ openRequestIds'[c] = {})
                => NotifiesOnce(c, 0)
          /\ closedRequestIds'[c] # closedRequestIds[c]
                => /\ sends' = sends
                   /\ openRequestIds' = openRequestIds]_vars

\* The open set of a container was emptied and the count 0 is on its way
\* to the popup, while the closed set holds the id of a request that was
\* never opened.
C31_Witness ==
    \E c \in DOMAIN openRequestIds :
        /\ openRequestIds[c] = {}
        /\ closedRequestIds[c] # {}
        /\ \E e \in BagToSet(sends) : e.cookieStoreId = c /\ e.count = 0

-----------------------------------------------------------------------------
(* The tracker and the type of a request.  trackRequestStateChanged is
   called for requests of every container and of every type; the container
   c1 is managed and unlocked. *)

\* The types the switch of the unnamed copy of Daemon.ts does not track.
UntrackedTypes == {"script", "stylesheet", "ping", "font", "imageset", "image"}

\* The requestType values the events carry here.
EventTypes == UntrackedTypes \cup {"xmlhttprequest"}

\* What the call of trackRequestStateChanged did: the arguments it was
\* called with, and the status it read.
KindRet(c, r, requestType, requestState) ==
    [entry |-> "trackRequestStateChanged", cookieStoreId |-> c,
     requestId |-> r, requestType |-> requestType,
     requestState |-> requestState, status |-> StatusRead(c)]

\* Daemon.trackRequestStateChanged(c, r, requestType, requestState), called
\* by one of the webRequest listeners.  The requestType is never read.
DaemonTracks(c, r, requestType, requestState) ==
    /\ TrackRequestStateChanged(c, r, requestState)
    /\ ret' = KindRet(c, r, requestType, requestState)
    /\ UNCHANGED <<lockedOk, browserInfo, listening, isLocked, openRequestCount,
                   tabIdToCookieStoreId, cookieStoreIdToTabIds>>
    /\ UNCHANGED <<popVars, hostVars>>
    /\ UNCHANGED causal
    /\ GuardIdle

NextKinds ==
    \/ \E c \in AllCookieStoreIds, r \in RequestIds, requestType \in EventTypes,
          requestState \in RequestStates :
              DaemonTracks(c, r, requestType, requestState)
    \/ \E e \in BagToSet(sends) : BgCountChangedResume(e)

SpecKinds == InitReorder /\ [][NextKinds]_vars

\* C32: a call of trackRequestStateChanged with no container id, for a
\* container of status NONE, or for a request of one of the untracked
\* types, whatever the event, changes neither the open set, the closed set
\* nor the cached count, and notifies nothing.
C32_UntrackedIsNoOp ==
    [][(/\ ret'.entry = "trackRequestStateChanged"
        /\ \/ ret'.cookieStoreId = Undefined
           \/ ret'.status = NONE
           \/ ret'.requestType \in UntrackedTypes)
          => UNCHANGED <<openRequestIds, closedRequestIds, openRequestCount,
                         sends>>]_vars

-----------------------------------------------------------------------------
(* disableWebRtc step by step.  The call awaits peerConnectionEnabled.set
   and then storage.local.set; between the two the extension can be stopped
   (the browser is killed, the extension is disabled or reloaded), and the
   call never resumes. *)

\* guardCall of a disableWebRtc suspended at the await of
\* peerConnectionEnabled.set (line 280): the value is passed, the flag is
\* not stored yet.
SetDone(runner) == GuardCall("disableWebRtc", runner, FALSE, "false", "none", "none")

\* guardCall of the rest of that call (lines 281-282)
StoreDone(runner) == GuardCall("disableWebRtc", runner, FALSE, "none", "set", "false")

Suspended == \E runner \in {"background", "popup"} : guardCall = SetDone(runner)

GuardRet(op, threw) == [entry |-> op, threw |-> threw]

\* The variables _startup and _shutdown leave alone
guardFrame ==
    <<lockedOk, browserInfo, isLocked, openRequestCount, openRequestIds,
      closedRequestIds, tabIdToCookieStoreId, cookieStoreIdToTabIds, sends,
      popVars, hostVars, causal>>

\* QuaranTab._startup: the listeners of the Daemon are registered (the popup
\* has none), then disableWebRtc, lines 268-280, runs up to the await of
\* peerConnectionEnabled.set, or to the end when it returns or throws
\* before.
DisableWebRtcBegins(runner) ==
    /\ ~Suspended
    /\ listening' = (listening \/ runner = "background")
    /\ LET g == disableWebRtc(runner, webRtc)
       IN /\ GuardRuns(IF g.set = "false" THEN SetDone(runner) ELSE g)
          /\ ret' = GuardRet("disableWebRtc", g.threw)
    /\ UNCHANGED guardFrame

\* QuaranTab.disableWebRtc, lines 281-282
DisableWebRtcResumes ==
    /\ Suspended
    /\ GuardRuns(StoreDone(guardCall.runner))
    /\ ret' = GuardRet("disableWebRtc", FALSE)
    /\ UNCHANGED <<listening, guardFrame>>

\* What a restart of the browser makes of the setting (resetWebRtc, lines
\* 294-297): the value stays, and a levelOfControl
\* controlled_by_this_extension is back to controllable_by_this_extension.
AfterRestart(setting) ==
    IF setting.levelOfControl = "controlled_by_this_extension"
    THEN [setting EXCEPT !.levelOfControl = "controllable_by_this_extension"]
    ELSE setting

\* The extension is stopped, be it while disableWebRtc is suspended, whose
\* rest then never runs: the extension is reloaded, or the browser is
\* killed and started again.  The listeners are gone with the page.
ExtensionStops(restarted) ==
    /\ listening' = FALSE
    /\ guardCall' = NoGuardCall
    /\ webRtc' = IF restarted THEN AfterRestart(webRtc) ELSE webRtc
    /\ UNCHANGED webRtcDisabledFlag
    /\ ret' = NoRet
    /\ UNCHANGED guardFrame

\* QuaranTab._shutdown: the listeners of the Daemon are removed, then
\* resetWebRtc.
ResetWebRtcRuns(runner) ==
    /\ ~Suspended
    /\ listening' = (listening /\ runner # "background")
    /\ LET g == resetWebRtc(runner, webRtc, webRtcDisabledFlag)
       IN /\ GuardRuns(g)
          /\ ret' = GuardRet("resetWebRtc", g.threw)
    /\ UNCHANGED guardFrame

NextPersist ==
    \/ \E runner \in {"background", "popup"} : DisableWebRtcBegins(runner)
    \/ DisableWebRtcResumes
    \/ \E restarted \in BOOLEAN : ExtensionStops(restarted)
    \/ \E runner \in {"background", "popup"} : ResetWebRtcRuns(runner)
    \/ \E setting \in WebRtcSettings : ~Suspended /\ PeerConnectionOnChange(setting)

\* The extension has not touched the setting yet: it does not control it
\* and has stored no flag.
InitPersist ==
    /\ InitGuard
    /\ webRtc.levelOfControl # "controlled_by_this_extension"
    /\ webRtcDisabledFlag = FALSE

SpecPersist == InitPersist /\ [][NextPersist]_vars

\* C33: at the end of every step in which disableWebRtc has passed the
\* value false to peerConnectionEnabled.set, the flag 'webrtc-disabled' is
\* in storage.local, so that it is there if the extension stops before the
\* call goes on.
C33_FlagBeforeFlip ==
    [][(guardCall'.op = "disableWebRtc" /\ guardCall'.set = "false")
          => webRtcDisabledFlag']_vars

-----------------------------------------------------------------------------
(* The termination sweep, round by round.  _onNetworkClose awaits the
   injections of a round and then tabs.query; pages of the container open
   tabs and tabs are closed meanwhile.  A tab id is given once. *)

SweepTabIds == 1..MaxSweepTabs

\* The local state of a call of _onNetworkClose(c): handledTabIds,
\* remainingTabIds, the number of executeScript calls made for each tab, the
\* number of queries made, and where the call is: about to inject
\* ("injecting"), about to query ("querying"), returned ("done") or thrown
\* ("failed").
Sweep(c, handled, remaining, injected, queries, st) ==
    [origin |-> "_onNetworkClose", cookieStoreId |-> c, handled |-> handled,
     remaining |-> remaining, injected |-> injected, queries |-> queries,
     st |-> st]

IsSweep(call) == call.origin = "_onNetworkClose"
Sweeping(call) == IsSweep(call) /\ call.st \in {"injecting", "querying"}

\* A filter that keeps every tab the query returned.
unhandledOrNot(queried, handled) == queried

\* QuaranTab._onNetworkClose, lines 667-670: the tabs of the query that are
\* not handled yet
unhandled(queried, handled) == queried \ handled

\* QuaranTab._setIsLocked in the background locks the container c and
\* calls _onNetworkClose(c) (lines 701-705), which enters its loop with
\* nothing handled and nothing remaining (lines 636-637).
SweepStarts(c) ==
    /\ lockedOk
    /\ sweeps(isLocked, c, CLOSED)
    /\ \A k \in calls : ~IsSweep(k)
    /\ isLocked' = setIsLockedMap(isLocked, c, CLOSED)
    /\ calls' = calls \cup {Sweep(c, {}, {}, [t \in Tabs |-> 0], 0, "injecting")}
    /\ ret' = NoRet
    /\ UNCHANGED <<lockedOk, browserInfo, listening, openRequestCount,
                   openRequestIds, closedRequestIds, tabIdToCookieStoreId,
                   cookieStoreIdToTabIds, sends>>
    /\ UNCHANGED <<popupOpen, popIsLocked, popOpenRequestCount, hostVars>>
    /\ UNCHANGED causal
    /\ GuardIdle

\* One round of the loop up to the end of its injections, lines 639-663:
\* the remaining tabs are recorded as handled and executeScript is called
\* for each of them.  The round throws when a script fails, as it does in
\* a tab that is closed.
SweepInjects(call, injectOk) ==
    /\ call \in calls
    /\ IsSweep(call)
    /\ call.st = "injecting"
    /\ (\E t \in call.remaining : liveTabs[t] # call.cookieStoreId) => ~injectOk
    /\ call.remaining = {} => injectOk
    /\ calls' = (calls \ {call}) \cup
           {Sweep(call.cookieStoreId, call.handled \cup call.remaining,
                  call.remaining,
                  [t \in Tabs |-> call.injected[t]
                                    + IF t \in call.remaining THEN 1 ELSE 0],
                  call.queries,
                  IF injectOk THEN "querying" ELSE "failed")}
    /\ ret' = NoRet
    /\ UNCHANGED <<bgVars, popupOpen, popIsLocked, popOpenRequestCount, hostVars>>
    /\ UNCHANGED causal
    /\ GuardIdle

\* The end of the round, lines 666-672: tabs.query, and the test of the loop
SweepQueries(call) ==
    /\ call \in calls
    /\ IsSweep(call)
    /\ call.st = "querying"
    /\ LET remaining == unhandled(TabsOf(call.cookieStoreId), call.handled)
       IN calls' = (calls \ {call}) \cup
              {Sweep(call.cookieStoreId, call.handled, remaining, call.injected,
                     call.queries + 1,
                     IF remaining = {} THEN "done" ELSE "injecting")}
    /\ ret' = NoRet
    /\ UNCHANGED <<bgVars, popupOpen, popIsLocked, popOpenRequestCount, hostVars>>
    /\ UNCHANGED causal
    /\ GuardIdle

\* The unlocked container c1 with one tab, in a browser with MaxSweepTabs
\* tab ids.
InitSweep ==
    Recovered([c \in CookieStoreIds |-> _getQuaranTabContainerName(FALSE)],
              [t \in SweepTabIds |-> IF t = 1 THEN TheCookieStoreId ELSE Absent],
              TRUE)

SweepStep ==
    \/ \E call \in calls, injectOk \in BOOLEAN : SweepInjects(call, injectOk)
    \/ \E call \in calls : SweepQueries(call)

NextSweep ==
    \/ \E c \in Containers : SweepStarts(c)
    \/ SweepStep
    \/ \E t \in Tabs, c \in Containers : HostOpensTab(t, c)
    \/ \E t \in Tabs : HostClosesTab(t)

\* A call suspended at an await goes on once the host has answered.
SpecSweep == InitSweep /\ [][NextSweep]_vars /\ WF_vars(SweepStep)

\* Every tab is injected at most once, and a sweep that returned has
\* injected every tab it has handled.
InjectedOnce ==
    \A k \in calls : IsSweep(k) =>
        /\ \A t \in Tabs : k.injected[t] <= 1
        /\ {t \in Tabs : k.injected[t] = 1} = k.handled
        /\ k.st = "done" => k.remaining = {}

\* A round injects every remaining tab, and the query that follows makes
\* the unhandled tabs of the container the remaining ones; the sweep
\* returns exactly when there are none.
RoundByRound ==
    \A k \in calls : \A j \in calls' :
        (Sweeping(k) /\ k \notin calls' /\ IsSweep(j)) =>
            IF k.st = "injecting"
            THEN /\ \A t \in k.remaining : j.injected[t] = k.injected[t] + 1
                 /\ \A t \in Tabs \ k.remaining : j.injected[t] = k.injected[t]
                 /\ j.st \in {"querying", "failed"}
            ELSE /\ j.remaining = TabsOf(k.cookieStoreId) \ k.handled
                 /\ j.injected = k.injected
                 /\ (j.st = "done") = (j.remaining = {})
                 /\ (j.st = "injecting") = (j.remaining # {})

\* C34: _onNetworkClose injects every tab its queries return, each once,
\* queries again after each round and goes on with the tabs not yet
\* handled, returns exactly when a query gives no such tab, and, tabs
\* being opened finitely often, always ends.
C34_SweepFixedPoint ==
    /\ []InjectedOnce
    /\ [][RoundByRound]_vars
    /\ \A c \in CookieStoreIds :
          (\E k \in calls : Sweeping(k) /\ k.cookieStoreId = c)
             ~> (\E k \in calls : IsSweep(k) /\ k.cookieStoreId = c
                                  /\ k.st \in {"done", "failed"})

\* A sweep has returned after three queries, having injected three tabs,
\* two of them opened while it ran.
C34_Witness ==
    \E k \in calls :
        /\ IsSweep(k)
        /\ k.st = "done"
        /\ k.queries >= 3
        /\ Cardinality(k.handled) = 3

-----------------------------------------------------------------------------
(* The status is derived *)

\* The status of container c is read from the lock entries `locked` and the
\* cached counts `count` as the claim has it.
DerivedFrom(locked, count, c, status) ==
    /\ (status = CLOSING) = (c \in DOMAIN locked /\ locked[c] /\ count[c] > 0)
    /\ (status = CLOSED) = (c \in DOMAIN locked /\ locked[c] /\ count[c] = 0)
    /\ (status = OPEN) = (c \in DOMAIN locked /\ ~locked[c])
    /\ (status = NONE) = (c \notin DOMAIN locked)

\* C35: in the background and in the popup the status of a container is
\* CLOSING exactly when its lock entry is true and its cached count is
\* positive, CLOSED exactly when the entry is true and there is no count,
\* OPEN exactly when the entry is false and NONE exactly when there is no
\* entry; checkStatus returns that status; and after _setIsLocked with
\* CLOSING or with CLOSED the status is the one the count gives, whichever
\* of the two was passed.
C35_StatusIsDerived ==
    /\ [](\A c \in Containers :
             /\ DerivedFrom(isLocked, openRequestCount, c, bgStatus(c))
             /\ DerivedFrom(popIsLocked, popOpenRequestCount, c, popStatus(c)))
    /\ [][/\ (ret'.entry = "checkStatus" /\ ~ret'.threw
                  /\ ret'.cookieStoreId # Undefined)
             => DerivedFrom(isLocked, openRequestCount, ret'.cookieStoreId,
                            ret'.status)
          /\ \A c \in Containers, status \in {CLOSING, CLOSED} :
                (SetsStatus(c, status) /\ ret'.previous # "rejected")
                   => bgStatus(c)' = IF openRequestCount[c] > 0 THEN CLOSING
                                     ELSE CLOSED]_vars

\* _setIsLocked was called with CLOSED for a container with an open
\* request, and the status of the container is CLOSING.
C35_Witness ==
    /\ ret.entry = "_setIsLocked"
    /\ ret.status = CLOSED
    /\ ret.previous # "rejected"
    /\ bgStatus(ret.cookieStoreId) = CLOSING

-----------------------------------------------------------------------------
(* Concurrent calls of trackRequestStateChanged *)

\* C36: once every call of trackRequestStateChanged has finished (none is
\* suspended at the send of its count), the count the background has cached
\* for a container is the size of the Daemon's open set of that container.
C36_CachedCountIsOpenSetSize ==
    sends = EmptyBag =>
        \A c \in DOMAIN openRequestIds :
            openRequestCount[c] = Cardinality(openRequestIds[c])

-----------------------------------------------------------------------------
(* A restart of the background while containers are in use: the new
   instance has nothing but the names of the containers and their tabs. *)


\* The background is started again while no message is on its way between
\* it and the popup.
BackgroundRestarts ==
    /\ sends = EmptyBag
    /\ calls = {}
    /\ BackgroundStarts

NextRestart ==
    \/ NextPopup
    \/ BackgroundRestarts

SpecRestart == InitFirefox /\ [][NextRestart]_vars

\* C37: a container that is locked in the background and has a tab when
\* the background starts again is locked in the map the new background
\* loads.
C37_RestartKeepsLock ==
    [][(ret'.entry = "constructor" /\ ~ret'.threw)
          => \A c \in DOMAIN isLocked :
                (lockedOk /\ isLocked[c] = TRUE /\ TabsOf(c) # {})
                   => /\ c \in DOMAIN isLocked'
                      /\ isLocked'[c] = TRUE]_vars

-----------------------------------------------------------------------------
(* The lock and a failed sweep: _setIsLocked in the background on
   containers in any state, and the hooks deciding on their requests. *)

NextCommit ==
    \/ NextStore
    \/ RequestSteps(DecideRequestIds, RequestDetails, MoreCookieStoreIds)
    \/ \E e \in BagToSet(sends) : BgCountChangedResume(e)

\* No container is locked yet, the map is loaded and no request is open.
InitCommit ==
    /\ InitStore
    /\ lockedOk
    /\ \A c \in DOMAIN isLocked : ~isLocked[c]
    /\ \A c \in DOMAIN openRequestCount : openRequestCount[c] = 0

SpecCommit == InitCommit /\ [][NextCommit]_vars

\* C38: a call of _setIsLocked(c, CLOSING or CLOSED) in the background on a
\* container that was not locked, whose sweep fails, throws and leaves the
\* lock entry of c true and c CLOSING or CLOSED; and a hook that decides
\* on a request of a container it finds CLOSING or CLOSED does not let the
\* request out.
C38_LockCommittedBeforeSweep ==
    /\ [][\A c \in Containers, status \in {CLOSING, CLOSED} :
             (SetsStatus(c, status) /\ ret'.swept /\ ~ret'.again
                  /\ (c \in DOMAIN isLocked => ~isLocked[c]))
                => /\ c \in DOMAIN isLocked' /\ isLocked'[c]
                   /\ bgStatus(c)' \in {CLOSING, CLOSED}]_vars
    /\ [](LockedDecision => Denies(ret.response))

-----------------------------------------------------------------------------
(* onTabClosed step by step: the handler is suspended at its host calls
   (contextualIdentities.get and remove) and looks at
   _cookieStoreIdToTabIds when it resumes, while the popup starts another
   container. *)

\* A run of onTabClosed suspended at lines 515-524, for the container c.
Teardown(c) ==
    [origin |-> "onTabClosed", cookieStoreId |-> c, status |-> "teardown",
     st |-> "suspended", waiting |-> FALSE]

\* QuaranTab.onTabClosed, lines 490-515: the tab leaves the two maps, and
\* when it was the last tab mapped to its container the handler awaits the
\* host.
OnTabClosedBegins(ev) ==
    /\ IsNextEvent(ev)
    /\ ev.kind = "removed"
    /\ tabEvents' = Tail(tabEvents)
    /\ LET t == ev.tabId
           c == tabIdToCookieStoreId[t]
           known == c # Absent /\ c \in DOMAIN cookieStoreIdToTabIds
           rest == IF known THEN cookieStoreIdToTabIds[c] \ {t} ELSE {}
       IN /\ tabIdToCookieStoreId' = [tabIdToCookieStoreId EXCEPT ![t] = Absent]
          /\ cookieStoreIdToTabIds' =
                 IF ~known THEN cookieStoreIdToTabIds
                 ELSE IF rest # {} THEN MapSet(cookieStoreIdToTabIds, c, rest)
                 ELSE MapDelete(cookieStoreIdToTabIds, c)
          /\ calls' = IF reachesRemove(t) THEN calls \cup {Teardown(c)} ELSE calls
          /\ ret' = tabClosedRet(FALSE, known, Cardinality(rest), FALSE, FALSE)
    /\ UNCHANGED <<lockedOk, browserInfo, listening, isLocked, openRequestCount,
                   openRequestIds, closedRequestIds, sends>>
    /\ UNCHANGED <<popupOpen, popIsLocked, popOpenRequestCount>>
    /\ UNCHANGED <<containerName, liveTabs, requests>>
    /\ UNCHANGED causal
    /\ GuardIdle

\* QuaranTab.onTabClosed, lines 524-530: contextualIdentities.remove has
\* settled; the host closes whatever tabs the container still has, and the
\* handler calls _shutdown when _cookieStoreIdToTabIds is empty by now.
OnTabClosedResumes(call, removeOk) ==
    /\ call \in calls
    /\ call.origin = "onTabClosed"
    /\ calls' = calls \ {call}
    /\ LET c == call.cookieStoreId
           removed == removeOk /\ containerName[c] # Absent
           shutdown == removed /\ shutsDown(cookieStoreIdToTabIds)
       IN /\ IF removed
             THEN /\ containerName' = [containerName EXCEPT ![c] = Absent]
                  /\ liveTabs' = [x \in Tabs |->
                                     IF liveTabs[x] = c THEN Absent ELSE liveTabs[x]]
                  /\ tabEvents' = tabEvents \o RemovedEvents(TabsOf(c), c)
             ELSE UNCHANGED <<containerName, liveTabs, tabEvents>>
          /\ IF shutdown
             THEN /\ listening' = FALSE
                  /\ GuardRuns(resetWebRtc("background", webRtc, webRtcDisabledFlag))
             ELSE /\ UNCHANGED listening
                  /\ GuardIdle
          /\ ret' = tabClosedRet(~removed, TRUE, 0, removed, shutdown)
    /\ UNCHANGED <<lockedOk, browserInfo, isLocked, openRequestCount,
                   openRequestIds, closedRequestIds, tabIdToCookieStoreId,
                   cookieStoreIdToTabIds, sends>>
    /\ UNCHANGED <<popupOpen, popIsLocked, popOpenRequestCount, requests>>
    /\ UNCHANGED causal

\* A host without any container of ours and without tabs, that has the
\* ids of two containers and of MaxTabs + 1 tabs to give: every container
\* there will be is created by openTabInQuarantine, after the background
\* has answered its handshake.
InitTeardown ==
    Recovered([c \in MoreCookieStoreIds |-> Absent],
              [t \in MoreTabIds |-> Absent], FALSE)

NextTeardown ==
    \/ UserSteps
    \/ CallSteps
    \/ \E t \in Tabs : HostClosesTab(t)
    \/ \E t \in Tabs, c \in Containers : HostOpensTab(t, c)
    \/ \E ev \in Pending(tabEvents) : OnTabClosedBegins(ev)
    \/ \E call \in calls, removeOk \in BOOLEAN : OnTabClosedResumes(call, removeOk)

SpecTeardown == InitTeardown /\ [][NextTeardown]_vars

\* C39: a container of ours that has an open tab (each was created after
\* the background acknowledged the handshake of its openTabInQuarantine)
\* has the blocking listeners registered and WebRTC disabled.
C39_GuardsWhileManaged ==
    \A c \in Containers :
        (containerName[c] # Absent /\ TabsOf(c) # {})
            => (listening /\ ~webRtc.value)

-----------------------------------------------------------------------------
(* The start of the background in a host that has a locked container with
   a tab, with the WebRTC setting in any state, and the hooks deciding on
   the requests of the containers afterwards. *)

\* The host when the background starts: c1 has the locked name and a tab.
InitLockedHost ==
    /\ InitRecovery
    /\ containerName \in [MoreCookieStoreIds -> OurNames \cup {Absent}]
    /\ containerName[TheCookieStoreId] = _getQuaranTabContainerName(TRUE)
    /\ liveTabs[1] = TheCookieStoreId

NextLockedHost ==
    \/ BackgroundRestarts
    \/ RequestSteps(DecideRequestIds, RequestDetails, MoreCookieStoreIds)
    \/ \E e \in BagToSet(sends) : BgCountChangedResume(e)

SpecLockedHost == InitLockedHost /\ [][NextLockedHost]_vars

\* C40: while the map of the background is rejected (disableWebRtc threw
\* inside _loadContainerState), a hook that decides on a request of a
\* container that has the locked name and a tab does not let the request
\* out.
C40_GuardFailureKeepsBlocking ==
    [][\A r \in DecideRequestIds :
          LET c == requests'[r].cookieStoreId
          IN (/\ ret'.entry \in Hooks
              /\ requests'[r] # requests[r]
              /\ ~lockedOk
              /\ c \in Containers
              /\ containerName[c] = _getQuaranTabContainerName(TRUE)
              /\ TabsOf(c) # {})
                 => Denies(ret'.response)]_vars

====
